---- MODULE Spec2Model ----
(***************************************************************************)
(* Model of the orchestration engine of Agentic_Pdf_Translator:            *)
(*   src/src/agents/master_agent.py    MasterAgent (supervisor loop)       *)
(*   src/src/workflow/routing.py       determine_next_step (router)        *)
(*   src/src/models/workflow_state.py  WorkflowState (State Record)        *)
(*   src/src/workflow/state_manager.py StateManager (persistence)          *)
(*   src/src/workflow/orchestrator.py  WorkflowOrchestrator (boundary)     *)
(*   src/src/agents/*_agent.py         the workers, as far as the          *)
(*                                     orchestrator inspects their results *)
(*                                                                         *)
(* One call of MasterAgent.orchestrate is cut into atomic segments, each   *)
(* ending where the code emits an event, saves the record or awaits a      *)
(* worker, so that every state an event or a save observes is a state of   *)
(* the model.  pc is the position of the call.                             *)
(***************************************************************************)
EXTENDS Integers, Sequences, FiniteSets, TLC

VARIABLES
    state,          \* the WorkflowState of the run ("None" before construction)
    pc,             \* position of the orchestrate call
    current_step,   \* local of orchestrate
    previous_step,  \* local of orchestrate
    auto_approve,   \* parameter of orchestrate
    progress_callback, \* parameter of orchestrate: "None" | "ok" | "raises" | "edits"
    request,        \* initial_request, as the workers read it back from state
    exc,            \* the exception in flight (NoMessage when there is none)
    store,          \* StateManager: the record saved under the run's request_id
    delivered,      \* what the progress sink received: <<event, snapshot>> pairs
    breached,       \* SLAMonitor.is_breached has answered True (time only grows)
    store_faulty,   \* environment: StateManager.save may raise OSError
    sla_tight,      \* environment: the run may take longer than sla_seconds
    retry_log,      \* history: one entry per increment of retry_count
    raised_at,      \* history: the State Record when a worker raised
    outcomes,       \* history: <<step, outcome>> of every worker invocation
    call,           \* argument of the pure function under test (harnesses);
                    \* in a run, whether this call resumes a paused run
    result,         \* its result
    other           \* a second run on the same MasterAgent (none in most specs)

vars == <<state, pc, current_step, previous_step, auto_approve, progress_callback,
          request, exc, store, delivered, breached, store_faulty, sla_tight, retry_log,
          raised_at, outcomes, call, result, other>>

(***************************************************************************)
(* Bounds of the model.                                                    *)
(***************************************************************************)
MaxRetriesBound == 2

(***************************************************************************)
(* Names and enumerations of the source.                                   *)
(***************************************************************************)
None == "None"

\* None in a field or a local that otherwise holds a message (a str)
NoMessage == <<>>

\* WorkflowOrchestrator.__init__: the registered workers, in registration order
WorkerAgents == <<"intake", "planner", "execution", "qa", "judge", "delivery">>

WorkerNames == {WorkerAgents[i] : i \in 1..Len(WorkerAgents)}

\* workflow_state.py: WorkflowStatus
WorkflowStatus == {"pending", "in_progress", "completed", "failed", "paused"}

\* workflow_state.py: QAStatus (enum members), and the plain strings a QA
\* result holds after a JSON round trip
QAStatus_PASS == "QAStatus.PASS"
QAStatus_FAIL == "QAStatus.FAIL"

\* str-mixin enum: QAStatus.FAIL == "fail" is True
QAStatusValue(s) ==
    CASE s = QAStatus_PASS -> "pass"
      [] s = QAStatus_FAIL -> "fail"
      [] OTHER -> s

\* the fixed step set of the router
RouterSteps == {"planner", "pause_for_approval", "execution", "qa", "judge",
                "delivery", "end"}

(***************************************************************************)
(* Strings.  A message is a tuple of strings: the parts the code joins or  *)
(* formats into one str.                                                   *)
(***************************************************************************)
\* str.lower() on the strings the model uses
Lower(s) ==
    CASE s = "EN"   -> "en"
      [] s = " EN " -> " en "
      [] s = "ES"   -> "es"
      [] s = "FAIL" -> "fail"
      [] s = "PASS" -> "pass"
      [] s = "QAStatus.FAIL" -> "qastatus.fail"
      [] s = "QAStatus.PASS" -> "qastatus.pass"
      [] s = "None" -> "none"
      [] OTHER -> s

\* str.strip() on the strings the model uses
Strip(s) ==
    CASE s = " EN " -> "EN"
      [] s = " en " -> "en"
      [] OTHER -> s

\* str(n) for the attempt numbers a run can reach
Digits == <<"1", "2", "3", "4", "5", "6", "7", "8", "9">>

Str(n) == IF n = 0 THEN "0" ELSE Digits[n]

Count(seq, x) == Cardinality({i \in 1..Len(seq) : seq[i] = x})

\* mutant: the membership test never finds the message
Contains_Never(seq, x) == FALSE

Contains(seq, x) == \E i \in 1..Len(seq) : seq[i] = x

Last(seq) == seq[Len(seq)]

(***************************************************************************)
(* WorkflowState and its methods (workflow_state.py).                      *)
(***************************************************************************)
NoOutput == [present |-> FALSE]

\* WorkflowState(**initial_request): the request's fields, defaults for the rest
WorkflowState(req) ==
    [ request_id        |-> req.request_id,
      status            |-> "pending",
      run_status        |-> "pending",
      current_agent     |-> None,
      execution_plan    |-> <<>>,
      route_history     |-> <<>>,
      step_status       |-> <<>>,
      events            |-> <<>>,
      normalized_request |-> [present |-> FALSE],
      translation_output |-> None,
      translation_method |-> None,
      qa_status         |-> None,
      judge_action      |-> None,
      final_output      |-> NoOutput,
      retry_count       |-> 0,
      max_retries       |-> req.max_retries,
      start_time        |-> None,
      end_time          |-> None,
      agent_timings     |-> {},
      requires_approval |-> FALSE,
      approval_granted  |-> None,
      pause_reason      |-> NoMessage,
      errors            |-> <<>>,
      warnings          |-> req.warnings ]

\* mutant: the membership test inverted
add_error_Inverted(st, message) ==
    IF Contains(st.errors, message) THEN [st EXCEPT !.errors = Append(@, message)]
    ELSE st

add_error(st, message) ==
    IF Contains(st.errors, message) THEN st
    ELSE [st EXCEPT !.errors = Append(@, message)]

add_warning(st, message) ==
    IF Contains(st.warnings, message) THEN st
    ELSE [st EXCEPT !.warnings = Append(@, message)]

\* mutant: the status of the step is not recorded
set_step_status_Dropped(st, step, status) == st

set_step_status(st, step, status) ==
    [st EXCEPT !.step_status =
        [k \in DOMAIN @ \cup {step} |-> IF k = step THEN status ELSE @[k]]]

\* mutant: the event is put in front
add_event_InFront(st, event) == [st EXCEPT !.events = <<event>> \o @]

add_event(st, event) == [st EXCEPT !.events = Append(@, event)]

(***************************************************************************)
(* The router (routing.py).                                                *)
(***************************************************************************)
\* state.judge_result.get("action", default)
JudgeActionOr(st, default) ==
    IF st.judge_action = None THEN default ELSE st.judge_action

\* qa_status == QAStatus.FAIL (QAStatus is a str enum: "fail" equals it too)
RouterQaFail(st) ==
    st.qa_status # None /\ QAStatusValue(st.qa_status) = "fail"

\* mutant: the pipeline without its judge (qa routes straight to delivery)
determine_next_step_SkipJudge(step, st) ==
    CASE step = "intake" -> "planner"
      [] step = "planner" ->
            IF st.requires_approval /\ st.approval_granted = None
            THEN "pause_for_approval" ELSE "execution"
      [] step = "execution" -> "qa"
      [] step = "qa" ->
            IF RouterQaFail(st) /\ st.retry_count < st.max_retries
            THEN "execution" ELSE "delivery"
      [] step = "judge" -> "delivery"
      [] step = "delivery" -> "end"
      [] OTHER -> "end"

\* mutant: a failed QA is never sent back to execution
determine_next_step_NoQaRetry(step, st) ==
    CASE step = "intake" -> "planner"
      [] step = "planner" ->
            IF st.requires_approval /\ st.approval_granted = None
            THEN "pause_for_approval" ELSE "execution"
      [] step = "execution" -> "qa"
      [] step = "qa" -> "judge"
      [] step = "judge" ->
            IF Lower(JudgeActionOr(st, "accept")) = "retry" /\ st.retry_count < st.max_retries
            THEN "execution" ELSE "delivery"
      [] step = "delivery" -> "end"
      [] OTHER -> "end"

\* mutant: the budget test of the qa branch off by one
determine_next_step_OffByOne(step, st) ==
    CASE step = "intake" -> "planner"
      [] step = "planner" ->
            IF st.requires_approval /\ st.approval_granted = None
            THEN "pause_for_approval" ELSE "execution"
      [] step = "execution" -> "qa"
      [] step = "qa" ->
            IF RouterQaFail(st) /\ st.retry_count <= st.max_retries
            THEN "execution" ELSE "judge"
      [] step = "judge" ->
            IF Lower(JudgeActionOr(st, "accept")) = "retry" /\ st.retry_count < st.max_retries
            THEN "execution" ELSE "delivery"
      [] step = "delivery" -> "end"
      [] OTHER -> "end"

\* mutant: a recorded SLA breach aborts the run at the next routing decision
determine_next_step_AbortOnBreach(step, st) ==
    IF Contains(st.warnings, <<"SLA threshold exceeded">>) THEN "end"
    ELSE CASE step = "intake" -> "planner"
           [] step = "planner" ->
                 IF st.requires_approval /\ st.approval_granted = None
                 THEN "pause_for_approval" ELSE "execution"
           [] step = "execution" -> "qa"
           [] step = "qa" ->
                 IF RouterQaFail(st) /\ st.retry_count < st.max_retries
                 THEN "execution" ELSE "judge"
           [] step = "judge" ->
                 IF Lower(JudgeActionOr(st, "accept")) = "retry"
                    /\ st.retry_count < st.max_retries
                 THEN "execution" ELSE "delivery"
           [] step = "delivery" -> "end"
           [] OTHER -> "end"

\* mutant: the budget test of the judge branch off by one
determine_next_step_JudgeOffByOne(step, st) ==
    CASE step = "intake" -> "planner"
      [] step = "planner" ->
            IF st.requires_approval /\ st.approval_granted = None
            THEN "pause_for_approval" ELSE "execution"
      [] step = "execution" -> "qa"
      [] step = "qa" ->
            IF RouterQaFail(st) /\ st.retry_count < st.max_retries
            THEN "execution" ELSE "judge"
      [] step = "judge" ->
            IF Lower(JudgeActionOr(st, "accept")) = "retry" /\ st.retry_count <= st.max_retries
            THEN "execution" ELSE "delivery"
      [] step = "delivery" -> "end"
      [] OTHER -> "end"

\* mutant: the approval gate is reached after QA instead of after planning
determine_next_step_PauseAfterQa(step, st) ==
    CASE step = "intake" -> "planner"
      [] step = "planner" -> "execution"
      [] step = "execution" -> "qa"
      [] step = "qa" ->
            IF st.requires_approval /\ st.approval_granted = None
            THEN "pause_for_approval"
            ELSE IF RouterQaFail(st) /\ st.retry_count < st.max_retries
            THEN "execution" ELSE "judge"
      [] step = "judge" ->
            IF Lower(JudgeActionOr(st, "accept")) = "retry" /\ st.retry_count < st.max_retries
            THEN "execution" ELSE "delivery"
      [] step = "delivery" -> "end"
      [] OTHER -> "end"

\* mutant: the judge's acceptance ends the run
determine_next_step_EndAfterJudge(step, st) ==
    CASE step = "intake" -> "planner"
      [] step = "planner" ->
            IF st.requires_approval /\ st.approval_granted = None
            THEN "pause_for_approval" ELSE "execution"
      [] step = "execution" -> "qa"
      [] step = "qa" ->
            IF RouterQaFail(st) /\ st.retry_count < st.max_retries
            THEN "execution" ELSE "judge"
      [] step = "judge" ->
            IF Lower(JudgeActionOr(st, "accept")) = "retry" /\ st.retry_count < st.max_retries
            THEN "execution" ELSE "end"
      [] step = "delivery" -> "end"
      [] OTHER -> "end"

determine_next_step(step, st) ==
    CASE step = "intake" -> "planner"
      [] step = "planner" ->
            IF st.requires_approval /\ st.approval_granted = None
            THEN "pause_for_approval" ELSE "execution"
      [] step = "execution" -> "qa"
      [] step = "qa" ->
            IF RouterQaFail(st) /\ st.retry_count < st.max_retries
            THEN "execution" ELSE "judge"
      [] step = "judge" ->
            IF Lower(JudgeActionOr(st, "accept")) = "retry" /\ st.retry_count < st.max_retries
            THEN "execution" ELSE "delivery"
      [] step = "delivery" -> "end"
      [] OTHER -> "end"

(***************************************************************************)
(* MasterAgent's helpers (master_agent.py).                                *)
(***************************************************************************)
\* _qa_failed: the enum compares by identity, anything else by str().lower()
IsQAStatusEnum(s) == s \in {QAStatus_PASS, QAStatus_FAIL}

qa_failed(st) ==
    IF IsQAStatusEnum(st.qa_status) THEN st.qa_status = QAStatus_FAIL
    ELSE Lower(st.qa_status) = "fail"

\* mutant: the gate forgets the judge's retries (the router still routes them)
retry_condition_QaOnly(prev, st) ==
    CASE prev = "qa" -> qa_failed(st)
      [] OTHER -> FALSE

retry_condition(prev, st) ==
    CASE prev = "qa" -> qa_failed(st)
      [] prev = "judge" -> Lower(JudgeActionOr(st, "")) = "retry"
      [] OTHER -> FALSE

\* mutant: a QA failure is reported as a failed run
derive_run_status_QaFailureFails(st) ==
    CASE st.status = "failed" \/ qa_failed(st) -> "failed"
      [] st.status = "paused" -> "paused"
      [] OTHER ->
            IF \/ st.errors # <<>>
               \/ st.warnings # <<>>
               \/ Lower(JudgeActionOr(st, "accept")) # "accept"
               \/ st.retry_count > 0
            THEN "completed_with_warnings" ELSE "completed"

\* mutant: the judge's verdict no longer degrades the label
derive_run_status_IgnoresJudge(st) ==
    CASE st.status = "failed" -> "failed"
      [] st.status = "paused" -> "paused"
      [] OTHER ->
            IF \/ st.errors # <<>>
               \/ st.warnings # <<>>
               \/ qa_failed(st)
               \/ st.retry_count > 0
            THEN "completed_with_warnings" ELSE "completed"

\* mutant: a used retry no longer degrades the label
derive_run_status_IgnoresRetryCount(st) ==
    CASE st.status = "failed" -> "failed"
      [] st.status = "paused" -> "paused"
      [] OTHER ->
            IF \/ st.errors # <<>>
               \/ st.warnings # <<>>
               \/ qa_failed(st)
               \/ Lower(JudgeActionOr(st, "accept")) # "accept"
            THEN "completed_with_warnings" ELSE "completed"

derive_run_status(st) ==
    CASE st.status = "failed" -> "failed"
      [] st.status = "paused" -> "paused"
      [] OTHER ->
            IF \/ st.errors # <<>>
               \/ st.warnings # <<>>
               \/ qa_failed(st)
               \/ Lower(JudgeActionOr(st, "accept")) # "accept"
               \/ st.retry_count > 0
            THEN "completed_with_warnings" ELSE "completed"

\* mutant: the derivation leaves a note in warnings
DeriveRunStatusCall_NotesWarning(st) ==
    [ label |-> derive_run_status(st),
      state |-> add_warning(st, <<"run_status derived">>) ]

\* the call self._derive_run_status(state): the label it returns and the State
\* Record (passed by reference) as the call leaves it
DeriveRunStatusCall(st) ==
    [ label |-> derive_run_status(st), state |-> st ]

\* the snapshot _emit_event builds for the progress callback (copies)
Snapshot(st) ==
    [ request_id    |-> st.request_id,
      current_agent |-> st.current_agent,
      status        |-> st.status,
      run_status    |-> st.run_status,
      step_status   |-> st.step_status,
      retry_count   |-> st.retry_count,
      warnings      |-> st.warnings,
      errors        |-> st.errors ]

Event(step, status, level, message) ==
    [step |-> step, status |-> status, level |-> level, message |-> message]

\* mutant: every event is filed under 'workflow'
emit_event_Unnamed(st, step, status, level, message) ==
    add_event(st, Event("workflow", status, level, message))

\* _emit_event, the part that changes the State Record
emit_event(st, step, status, level, message) ==
    add_event(st, Event(step, status, level, message))

\* _emit_event, the part that calls the sink: what the sink has received after
\* the event was appended to st
Deliver(sink, cb, st) ==
    IF cb = None THEN sink
    ELSE Append(sink, <<Last(st.events), Snapshot(st)>>)

\* mutant: the snapshot holds the State Record's own warnings list
SnapshotCopies_NotWarnings(field) == field # "warnings"

\* _emit_event lines 283, 285, 286: dict(state.step_status),
\* list(state.warnings), list(state.errors): the snapshot's mutable fields
\* are new objects, not the State Record's
SnapshotCopies(field) == TRUE

\* _emit_event line 289: the event handed to the sink is the dict that was
\* appended to state.events; the snapshot is built from copies.  A sink that
\* only reads what it is given leaves the State Record alone; a sink that
\* writes into it ("edits": it overwrites event["status"], appends to the
\* snapshot's warnings and errors and overwrites the snapshot's step_status)
\* and returns normally changes what it shares with the State Record.
AfterSink(cb, st) ==
    IF cb = "edits"
    THEN [st EXCEPT
            !.events[Len(st.events)] = [@ EXCEPT !.status = "seen"],
            !.warnings = IF SnapshotCopies("warnings") THEN @ ELSE Append(@, <<"seen">>),
            !.errors = IF SnapshotCopies("errors") THEN @ ELSE Append(@, <<"seen">>),
            !.step_status = IF SnapshotCopies("step_status") THEN @
                            ELSE [step \in DOMAIN @ |-> "seen"]]
    ELSE st

(***************************************************************************)
(* The workers, as far as the orchestrator and the router read their       *)
(* results.  A request is the record of the fields the workers read:       *)
(* raw_words is len(raw_text.split()).                                     *)
(***************************************************************************)
\* mutant: the languages compared as given, not normalised
validate_request_AsGiven(req) ==
    (IF req.raw_words = 0 THEN <<"raw_text is required">> ELSE <<>>)
    \o (IF req.source_language = req.target_language
        THEN <<"source and target language must differ">> ELSE <<>>)
    \o (IF req.page_count < 1 THEN <<"page_count must be >= 1">> ELSE <<>>)

\* IntakeAgent._validate_request: the list of error strings
validate_request(req) ==
    (IF req.raw_words = 0 THEN <<"raw_text is required">> ELSE <<>>)
    \o (IF Strip(Lower(req.source_language)) = Strip(Lower(req.target_language))
        THEN <<"source and target language must differ">> ELSE <<>>)
    \o (IF req.page_count < 1 THEN <<"page_count must be >= 1">> ELSE <<>>)

\* IntakeAgent._estimate_complexity
estimate_complexity(word_count, page_count) ==
    IF page_count > 10 \/ word_count > 4000 THEN "high"
    ELSE IF page_count > 3 \/ word_count > 1200 THEN "medium"
    ELSE "low"

\* IntakeAgent.execute, when validation passes
IntakeResult(req) ==
    [ present |-> TRUE,
      word_count |-> req.raw_words,
      estimated_complexity |-> estimate_complexity(req.raw_words, req.page_count) ]

\* PlannerAgent._estimate_duration: int(max(5, word_count // 25) * multiplier)
estimate_duration(word_count, complexity) ==
    LET base == IF word_count \div 25 > 5 THEN word_count \div 25 ELSE 5
        twice == CASE complexity = "low" -> 2
                   [] complexity = "medium" -> 3
                   [] complexity = "high" -> 4
                   [] OTHER -> 2
    IN (base * twice) \div 2

\* mutant: approval decided by the estimated duration alone
PlannerRequiresApproval_DurationOnly(st, req) ==
    LET word_count == IF st.normalized_request.present
                      THEN st.normalized_request.word_count ELSE req.raw_words
        complexity == IF st.normalized_request.present
                      THEN st.normalized_request.estimated_complexity ELSE "low"
    IN estimate_duration(word_count, complexity) > 60

\* PlannerAgent.execute: requires_approval
PlannerRequiresApproval(st, req) ==
    LET word_count == IF st.normalized_request.present
                      THEN st.normalized_request.word_count ELSE req.raw_words
        complexity == IF st.normalized_request.present
                      THEN st.normalized_request.estimated_complexity ELSE "low"
    IN estimate_duration(word_count, complexity) > 60 \/ req.page_count > 15

PlannerResult(st, req) ==
    [ requires_approval |-> PlannerRequiresApproval(st, req),
      approval_reason |-> IF PlannerRequiresApproval(st, req)
                          THEN <<"Estimated runtime exceeds approval threshold.">>
                          ELSE NoMessage ]

\* ExecutionAgent.execute: the method it reports (llm and key come from the
\* orchestrator's configuration)
ExecutionResults(req) == {[translation |-> "text", method |-> req.method]}

\* QAAgent.execute: the checks of the translation may pass or fail; the forced
\* failure is added while retry_count is 0
QAResults(st, req) ==
    IF req.force_qa_fail_once /\ st.retry_count = 0
    THEN {[status |-> QAStatus_FAIL]}
    ELSE {[status |-> QAStatus_PASS], [status |-> QAStatus_FAIL]}

\* JudgeAgent.execute, and any judge of the worker contract
JudgeResults ==
    {[action |-> a, score |-> "50.0"] : a \in {"accept", "retry", "human_review"}}

\* DeliveryAgent.execute: the envelope, dumped to JSON (a copy)
DeliveryResult(st) ==
    [ present       |-> TRUE,
      request_id    |-> st.request_id,
      status        |-> IF st.run_status # "" THEN st.run_status ELSE st.status,
      retry_count   |-> st.retry_count,
      agent_timings |-> st.agent_timings,
      route_history |-> st.route_history,
      step_status   |-> st.step_status,
      events        |-> st.events,
      translation_method |-> st.translation_method,
      warnings      |-> st.warnings,
      errors        |-> st.errors ]

\* what a worker that fails raises: str(exc)
WorkerError(step) == <<step, "worker raised">>

(***************************************************************************)
(* MasterAgent._merge_result and _refresh_delivery_metadata.               *)
(***************************************************************************)
\* mutant: the results of qa and judge are not merged
merge_result_DropsVerdicts(st, req, agent_name, res) ==
    CASE agent_name = "intake" ->
            [st EXCEPT !.normalized_request = res]
      [] agent_name = "planner" ->
            [st EXCEPT !.execution_plan = <<"plan">>,
                       !.requires_approval = res.requires_approval,
                       !.pause_reason = IF res.approval_reason # NoMessage
                                        THEN res.approval_reason ELSE @]
      [] agent_name = "execution" ->
            LET st1 == [st EXCEPT !.translation_output = res.translation,
                                  !.translation_method = res.method]
            IN IF res.method = "mock" /\ req.requested_real_llm
               THEN add_warning(st1, <<"Mock translation path used.">>)
               ELSE st1
      [] agent_name = "delivery" ->
            [st EXCEPT !.final_output = res]
      [] OTHER -> st

merge_result(st, req, agent_name, res) ==
    CASE agent_name = "intake" ->
            [st EXCEPT !.normalized_request = res]
      [] agent_name = "planner" ->
            [st EXCEPT !.execution_plan = <<"plan">>,
                       !.requires_approval = res.requires_approval,
                       !.pause_reason = IF res.approval_reason # NoMessage
                                        THEN res.approval_reason ELSE @]
      [] agent_name = "execution" ->
            LET st1 == [st EXCEPT !.translation_output = res.translation,
                                  !.translation_method = res.method]
            IN IF res.method = "mock" /\ req.requested_real_llm
               THEN add_warning(st1, <<"Mock translation path used.">>)
               ELSE st1
      [] agent_name = "qa" ->
            LET st1 == [st EXCEPT !.qa_status = res.status]
            IN IF qa_failed(st1)
               THEN add_warning(st1,
                        <<"QA check failed. Workflow may retry or require review.">>)
               ELSE st1
      [] agent_name = "judge" ->
            LET st1 == [st EXCEPT !.judge_action = res.action]
            IN IF Lower(res.action) = "retry"
               THEN add_warning(st1,
                        <<"Judge requested action: ", Lower(res.action), res.score>>)
               ELSE st1
      [] agent_name = "delivery" ->
            [st EXCEPT !.final_output = res]
      [] OTHER -> st

refresh_delivery_metadata(st) ==
    IF ~st.final_output.present THEN st
    ELSE [st EXCEPT !.final_output =
            [@ EXCEPT !.step_status = st.step_status,
                      !.events = st.events,
                      !.warnings = st.warnings,
                      !.errors = st.errors,
                      !.route_history = st.route_history,
                      !.translation_method = st.translation_method,
                      !.status = IF st.run_status # "" THEN st.run_status
                                 ELSE st.status]]

\* WorkflowOrchestrator._to_response
to_response(st) ==
    IF st.status = "paused"
    THEN [ kind |-> "paused",
           request_id |-> st.request_id,
           status |-> IF st.run_status # "" THEN st.run_status ELSE st.status,
           pause_reason |-> st.pause_reason,
           current_agent |-> st.current_agent,
           route_history |-> st.route_history,
           step_status |-> st.step_status,
           events |-> st.events,
           warnings |-> st.warnings,
           errors |-> st.errors ]
    ELSE IF st.final_output.present
    THEN [kind |-> "envelope", envelope |-> st.final_output]
    ELSE [ kind |-> "plain",
           request_id |-> st.request_id,
           status |-> IF st.run_status # "" THEN st.run_status ELSE st.status,
           errors |-> st.errors,
           warnings |-> st.warnings ]

(***************************************************************************)
(* The environment of one call: what a save and a sink call can do.        *)
(***************************************************************************)
\* StateManager.save: write_text may raise where the store is faulty
SaveOutcomes == IF store_faulty THEN {"ok", "raise"} ELSE {"ok"}

\* progress_callback(event, snapshot): a sink that breaks its contract raises
SinkOutcomes == IF progress_callback = "raises" THEN {"ok", "raise"} ELSE {"ok"}

StoreError == <<"OSError">>

SinkError == <<"sink raised">>

NotRaised == [present |-> FALSE]

\* mutant: every entry into execution counts as a retry
RetryGateOpen_EveryExecution(cur, prev, st) == cur = "execution"

\* the retry gate of the loop body (lines 82-87)
RetryGateOpen(cur, prev, st) ==
    /\ cur = "execution"
    /\ prev \in {"qa", "judge"}
    /\ retry_condition(prev, st)
    /\ st.retry_count < st.max_retries

\* mutant: finalization stamps the end time anew
EndTimeOr_Now(t, now) == now

\* line 129: state.end_time or datetime.utcnow()
EndTimeOr(t, now) == IF t # None THEN t ELSE now

\* mutant: the retry is not counted
IncrementRetry_NotCounted(n) == n

\* line 88: state.retry_count += 1
IncrementRetry(n) == n + 1

\* the results a worker can return for the State Record it is given
WorkerResults(step, st, req) ==
    CASE step = "intake" ->
            IF validate_request(req) = <<>> THEN {IntakeResult(req)} ELSE {}
      [] step = "planner" -> {PlannerResult(st, req)}
      [] step = "execution" -> ExecutionResults(req)
      [] step = "qa" -> QAResults(st, req)
      [] step = "judge" -> JudgeResults
      [] step = "delivery" -> {DeliveryResult(st)}
      [] OTHER -> {}

\* the exceptions a worker can raise: intake raises its validation errors
\* (joined into one message), any worker may fail for a reason of its own
WorkerFailures(step, st, req) ==
    IF step = "intake" /\ validate_request(req) # <<>>
    THEN {validate_request(req)}
    ELSE {WorkerError(step)}

(***************************************************************************)
(* The calls the model makes: WorkflowOrchestrator.execute_workflow builds *)
(* the payload and calls orchestrate(payload, auto_approve,                *)
(* progress_callback) on a MasterAgent built from the settings.            *)
(***************************************************************************)
TargetLanguages == {"es", " EN "}

PageCounts == {0, 1, 16}

RawWordCounts == {0, 100, 2000}

\* WorkflowOrchestrator.__init__ and _initialize_llm: real LLM off; on with the
\* API key missing (a warning, mock translation); on with a working LLM
MissingKeyWarning ==
    <<"USE_REAL_LLM enabled but GOOGLE_API_KEY missing. Falling back to mock translation.">>

Orchestrators ==
    { [use_real_llm |-> FALSE, method |-> "mock", init_warnings |-> <<>>],
      [use_real_llm |-> TRUE, method |-> "mock", init_warnings |-> <<MissingKeyWarning>>],
      [use_real_llm |-> TRUE, method |-> "langchain_llm", init_warnings |-> <<>>] }

\* execute_workflow lines 50-54: the payload handed to orchestrate
Payload(t, p, w, m, f, orch) ==
    [ request_id |-> "run-1",
      source_language |-> "en",
      target_language |-> t,
      page_count |-> p,
      raw_words |-> w,
      max_retries |-> m,
      force_qa_fail_once |-> f,
      requested_real_llm |-> orch.use_real_llm,
      method |-> orch.method,
      warnings |-> orch.init_warnings ]

\* every request, on every orchestrator, while the run stays within the SLA
Requests ==
    { Payload(t, p, w, m, f, orch) :
        t \in TargetLanguages, p \in PageCounts, w \in RawWordCounts,
        m \in 0..MaxRetriesBound, f \in BOOLEAN, orch \in Orchestrators }

\* the requests of runs that may exceed the SLA
SlowRequests ==
    { Payload("es", 1, 100, m, f, orch) :
        m \in 0..MaxRetriesBound, f \in BOOLEAN,
        orch \in {o \in Orchestrators : ~o.use_real_llm} }

\* execute_workflow lines 50-54 when the caller's request carries a warnings
\* list: dict(request) is a shallow copy, setdefault keeps the caller's list
\* and extend appends the init warnings to it
PayloadOnto(own, t, p, w, m, f, orch) ==
    [Payload(t, p, w, m, f, orch) EXCEPT !.warnings = own \o orch.init_warnings]

\* the second call of execute_workflow with one request dict that carries a
\* warnings list: the first call has left the init warnings in that list
ReusedRequests ==
    { PayloadOnto(orch.init_warnings, "es", 1, 100, m, f, orch) :
        m \in 0..MaxRetriesBound, f \in BOOLEAN,
        orch \in {o \in Orchestrators : o.init_warnings # <<>>} }

NoCall == [step |-> None]

NoOther == [phase |-> "none"]

\* the state at line 32, after WorkflowState(**initial_request)
InitCall(requests, slow_requests, callbacks, faulty, others) ==
    /\ \/ request \in requests /\ auto_approve \in BOOLEAN /\ sla_tight = FALSE
       \/ request \in slow_requests /\ auto_approve = TRUE /\ sla_tight = TRUE
    /\ state = WorkflowState(request)
    /\ pc = "constructed"
    /\ current_step = None
    /\ previous_step = None
    /\ progress_callback \in callbacks
    /\ exc = NoMessage
    /\ store = [present |-> FALSE]
    /\ delivered = <<>>
    /\ breached = FALSE
    /\ store_faulty \in faulty
    /\ retry_log = <<>>
    /\ raised_at = NotRaised
    /\ outcomes = <<>>
    /\ call = NoCall
    /\ result = None
    /\ other \in others

Init == InitCall(Requests \cup ReusedRequests, SlowRequests, {None, "ok"}, {FALSE}, {NoOther})

\* the parameters and the environment of the call: no segment changes them
Params ==
    UNCHANGED <<auto_approve, progress_callback, request, store_faulty, sla_tight,
                call, result, other>>

\* the frame of a segment that invokes no worker
Frame == Params /\ UNCHANGED outcomes

\* what the model records of a worker's result
Outcome(step, res) ==
    CASE step = "qa" -> QAStatusValue(res.status)
      [] step = "judge" -> res.action
      [] OTHER -> "ok"

\* mutant: an enum member is written by its name
model_dump_json_EnumNames(st) ==
    [st EXCEPT !.qa_status = CASE @ = QAStatus_FAIL -> "FAIL"
                               [] @ = QAStatus_PASS -> "PASS"
                               [] OTHER -> @]

\* state.model_dump_json(): the State Record as JSON text.  The members of
\* the str enums are written as their values; qa_result is an untyped dict,
\* so the text keeps no trace of its status having been an enum member.
model_dump_json(st) == [st EXCEPT !.qa_status = QAStatusValue(@)]

\* mutant: the save leaves the event list out
Saved_WithoutEvents(st) ==
    [present |-> TRUE, record |-> [model_dump_json(st) EXCEPT !.events = <<>>]]

\* StateManager.save(state): overwrite the file of the run
Saved(st) == [present |-> TRUE, record |-> model_dump_json(st)]

\* StateManager.load(request_id) on the file of the run: None when there is
\* no file, else WorkflowState(**json.loads(text)); the typed fields are
\* parsed back, the entries of the untyped dicts stay what the text holds
load(file) ==
    IF file.present THEN [present |-> TRUE, state |-> file.record]
    ELSE [present |-> FALSE]

(***************************************************************************)
(* orchestrate, lines 33-49: before the try.                               *)
(***************************************************************************)
\* lines 33-37: start the run and save it
Start ==
    /\ pc = "constructed"
    /\ LET st == [state EXCEPT
                    !.start_time = "at_start",
                    !.status = "in_progress",
                    !.run_status = "in_progress",
                    !.step_status = [k \in WorkerNames |-> "pending"]]
       IN /\ state' = st
          /\ \E o \in SaveOutcomes :
                IF o = "ok"
                THEN /\ store' = Saved(st)
                     /\ pc' = "started"
                     /\ exc' = exc
                ELSE /\ store' = store
                     /\ pc' = "escaped"
                     /\ exc' = StoreError
    /\ UNCHANGED <<current_step, previous_step, delivered, breached, retry_log, raised_at>>
    /\ Frame

\* lines 39-49: the 'workflow started' event, then the locals
EmitStarted ==
    /\ pc = "started"
    /\ LET st == emit_event(state, "workflow", "started", "info", <<"Workflow started.">>)
       IN /\ state' = AfterSink(progress_callback, st)
          /\ delivered' = Deliver(delivered, progress_callback, st)
          /\ \E o \in SinkOutcomes :
                IF o = "ok"
                THEN /\ pc' = "loop"
                     /\ current_step' = "intake"
                     /\ exc' = exc
                ELSE /\ pc' = "escaped"
                     /\ current_step' = current_step
                     /\ exc' = SinkError
    /\ UNCHANGED <<previous_step, store, breached, retry_log, raised_at>>
    /\ Frame

(***************************************************************************)
(* orchestrate, lines 51-118: the loop.  pc = "loop" is the loop head.     *)
(***************************************************************************)
\* lines 53-67: the approval gate, auto-approved
AutoApprove ==
    /\ pc = "loop"
    /\ current_step = "pause_for_approval"
    /\ auto_approve
    /\ LET st0 == [state EXCEPT !.approval_granted = "True",
                                !.status = "in_progress",
                                !.run_status = "in_progress",
                                !.pause_reason = NoMessage]
           st == emit_event(st0, "approval", "auto_approved", "info",
                            <<"Approval gate auto-approved by configuration.">>)
       IN /\ state' = AfterSink(progress_callback, st)
          /\ delivered' = Deliver(delivered, progress_callback, st)
          /\ \E o \in SinkOutcomes :
                IF o = "ok"
                THEN /\ pc' = "loop"
                     /\ current_step' = "execution"
                     /\ exc' = exc
                ELSE /\ pc' = "raised"
                     /\ current_step' = current_step
                     /\ exc' = SinkError
    /\ UNCHANGED <<previous_step, store, breached, retry_log, raised_at>>
    /\ Frame

\* lines 68-78: the approval gate, pausing
Pause ==
    /\ pc = "loop"
    /\ current_step = "pause_for_approval"
    /\ ~auto_approve
    /\ LET st0 == [state EXCEPT !.status = "paused",
                                !.run_status = "paused",
                                !.pause_reason = <<"Awaiting human approval">>]
           st == emit_event(st0, "approval", "paused", "warning", st0.pause_reason)
       IN /\ state' = AfterSink(progress_callback, st)
          /\ delivered' = Deliver(delivered, progress_callback, st)
          /\ \E o \in SinkOutcomes :
                IF o = "ok"
                THEN pc' = "pause_emitted" /\ exc' = exc
                ELSE pc' = "raised" /\ exc' = SinkError
    /\ UNCHANGED <<current_step, previous_step, store, breached, retry_log, raised_at>>
    /\ Frame

\* lines 79-80: save the paused record and return it
PauseSave ==
    /\ pc = "pause_emitted"
    /\ \E o \in SaveOutcomes :
          IF o = "ok"
          THEN store' = Saved(state) /\ pc' = "returned" /\ exc' = exc
          ELSE store' = store /\ pc' = "raised" /\ exc' = StoreError
    /\ UNCHANGED <<state, current_step, previous_step, delivered, breached,
                   retry_log, raised_at>>
    /\ Frame

\* lines 82-98: the retry gate, when it is open
RetryGate ==
    /\ pc = "loop"
    /\ RetryGateOpen(current_step, previous_step, state)
    /\ LET st0 == [state EXCEPT !.retry_count = IncrementRetry(@)]
           retry_message == <<"Retrying translation, attempt ", Str(st0.retry_count)>>
           st == emit_event(add_warning(st0, retry_message),
                            "execution", "retry", "warning", retry_message)
       IN /\ state' = AfterSink(progress_callback, st)
          /\ delivered' = Deliver(delivered, progress_callback, st)
          /\ retry_log' = Append(retry_log,
                [ at |-> Len(state.route_history),
                  last |-> Last(state.route_history),
                  routed |-> determine_next_step(Last(state.route_history), state) ])
          /\ \E o \in SinkOutcomes :
                IF o = "ok"
                THEN pc' = "gated" /\ exc' = exc
                ELSE pc' = "raised" /\ exc' = SinkError
    /\ UNCHANGED <<current_step, previous_step, store, breached, raised_at>>
    /\ Frame

\* line 100 and _execute_step lines 164-176: enter the step
EnterStep ==
    /\ \/ pc = "gated"
       \/ /\ pc = "loop"
          /\ current_step \notin {"end", "delivery", "pause_for_approval"}
          /\ ~RetryGateOpen(current_step, previous_step, state)
    /\ LET st0 == [state EXCEPT !.route_history = Append(@, current_step)]
           st1 == set_step_status([st0 EXCEPT !.current_agent = current_step],
                                  current_step, "in_progress")
           st == emit_event(st1, current_step, "in_progress", "info",
                            <<current_step, " started.">>)
       IN IF current_step \notin WorkerNames
          THEN /\ state' = st0
               /\ delivered' = delivered
               /\ pc' = "raised"
               /\ exc' = <<"Unknown agent: ", current_step>>
          ELSE /\ state' = AfterSink(progress_callback, st)
               /\ delivered' = Deliver(delivered, progress_callback, st)
               /\ \E o \in SinkOutcomes :
                     IF o = "ok"
                     THEN pc' = "running" /\ exc' = exc
                     ELSE pc' = "raised" /\ exc' = SinkError
    /\ UNCHANGED <<current_step, previous_step, store, breached, retry_log, raised_at>>
    /\ Frame

\* _execute_step lines 178-207: the worker returns a result
WorkerReturns ==
    /\ pc = "running"
    /\ \E res \in WorkerResults(current_step, state, request) :
          LET st0 == [state EXCEPT !.agent_timings = @ \cup {current_step}]
              st1 == set_step_status(merge_result(st0, request, current_step, res),
                                     current_step, "completed")
              st2 == emit_event(st1, current_step, "completed", "info",
                                <<current_step, " completed.">>)
          IN /\ delivered' = Deliver(delivered, progress_callback, st2)
             /\ outcomes' = Append(outcomes, <<current_step, Outcome(current_step, res)>>)
             /\ \E o \in SinkOutcomes :
                   IF o = "ok"
                   THEN /\ state' = IF current_step = "delivery"
                                    THEN refresh_delivery_metadata(
                                             AfterSink(progress_callback, st2))
                                    ELSE AfterSink(progress_callback, st2)
                        /\ pc' = "step_done"
                        /\ exc' = exc
                   ELSE /\ state' = st2
                        /\ pc' = "raised"
                        /\ exc' = SinkError
    /\ UNCHANGED <<current_step, previous_step, store, breached, retry_log, raised_at>>
    /\ Params

\* _execute_step lines 181-191: the worker raises
WorkerRaises ==
    /\ pc = "running"
    /\ \E e \in WorkerFailures(current_step, state, request) :
          LET st == emit_event(set_step_status(state, current_step, "failed"),
                               current_step, "failed", "error", e)
          IN /\ state' = AfterSink(progress_callback, st)
             /\ delivered' = Deliver(delivered, progress_callback, st)
             /\ raised_at' = [present |-> TRUE, step |-> current_step, message |-> e,
                              before |-> state]
             /\ outcomes' = Append(outcomes, <<current_step, "raised">>)
             /\ pc' = "raised"
             /\ \E o \in SinkOutcomes :
                   exc' = IF o = "ok" THEN e ELSE SinkError
    /\ UNCHANGED <<current_step, previous_step, store, breached, retry_log>>
    /\ Params

\* line 102 (in the loop) and line 126 (after delivery): save after the step
SaveStep ==
    /\ pc = "step_done"
    /\ \E o \in SaveOutcomes :
          IF o = "ok"
          THEN store' = Saved(state) /\ pc' = "saved" /\ exc' = exc
          ELSE store' = store /\ pc' = "raised" /\ exc' = StoreError
    /\ UNCHANGED <<state, current_step, previous_step, delivered, breached,
                   retry_log, raised_at>>
    /\ Frame

\* lines 104-118: the SLA check, then the routing decision.  is_breached
\* compares the clock with start_time: where the SLA is tight it may turn
\* True at any check, and then it stays True.
SlaAndRoute ==
    /\ pc = "saved"
    /\ current_step # "delivery"
    /\ \E b \in IF sla_tight THEN BOOLEAN ELSE {FALSE} :
          /\ breached => b
          /\ breached' = b
          /\ LET sla_warning == <<"SLA threshold exceeded">>
                 warn == b /\ ~Contains(state.warnings, sla_warning)
                 st == IF warn
                       THEN emit_event(add_warning(state, sla_warning),
                                       "workflow", "sla_warning", "warning", sla_warning)
                       ELSE state
             IN /\ state' = IF warn THEN AfterSink(progress_callback, st) ELSE st
                /\ delivered' = IF warn THEN Deliver(delivered, progress_callback, st)
                                ELSE delivered
                /\ \E o \in IF warn THEN SinkOutcomes ELSE {"ok"} :
                      IF o = "ok"
                      THEN /\ pc' = "loop"
                           /\ previous_step' = current_step
                           /\ current_step' = determine_next_step(current_step, st)
                           /\ exc' = exc
                      ELSE /\ pc' = "raised"
                           /\ previous_step' = previous_step
                           /\ current_step' = current_step
                           /\ exc' = SinkError
    /\ UNCHANGED <<store, retry_log, raised_at>>
    /\ Frame

(***************************************************************************)
(* orchestrate, lines 120-140: delivery and finalization.                  *)
(***************************************************************************)
\* lines 120-125 and _execute_step lines 164-176: enter delivery
EnterDelivery ==
    /\ pc = "loop"
    /\ current_step = "delivery"
    /\ LET st0 == [state EXCEPT !.route_history = Append(@, current_step),
                                !.status = "completed",
                                !.end_time = "at_delivery"]
           st1 == [DeriveRunStatusCall(st0).state EXCEPT
                      !.run_status = DeriveRunStatusCall(st0).label]
           st2 == set_step_status([st1 EXCEPT !.current_agent = "delivery"],
                                  "delivery", "in_progress")
           st == emit_event(st2, "delivery", "in_progress", "info",
                            <<"delivery", " started.">>)
       IN /\ state' = AfterSink(progress_callback, st)
          /\ delivered' = Deliver(delivered, progress_callback, st)
          /\ \E o \in SinkOutcomes :
                IF o = "ok"
                THEN pc' = "running" /\ exc' = exc
                ELSE pc' = "raised" /\ exc' = SinkError
    /\ UNCHANGED <<current_step, previous_step, store, breached, retry_log, raised_at>>
    /\ Frame

\* the loop has been left: after delivery was saved, or at 'end'
AtFinalize ==
    IF current_step = "delivery" THEN pc = "saved"
    ELSE pc = "loop" /\ current_step = "end"

\* lines 128-138: finalize and emit the final event
Finalize ==
    /\ AtFinalize
    /\ LET st0 == [state EXCEPT !.status = "completed",
                                !.end_time = EndTimeOr(@, "at_finalize")]
           st1 == [DeriveRunStatusCall(st0).state EXCEPT
                      !.run_status = DeriveRunStatusCall(st0).label]
           st == emit_event(st1, "workflow", st1.run_status, "info",
                            <<"Workflow finished with status: ", st1.run_status>>)
       IN /\ state' = AfterSink(progress_callback, st)
          /\ delivered' = Deliver(delivered, progress_callback, st)
          /\ \E o \in SinkOutcomes :
                IF o = "ok"
                THEN pc' = "finalized" /\ exc' = exc
                ELSE pc' = "raised" /\ exc' = SinkError
    /\ UNCHANGED <<current_step, previous_step, store, breached, retry_log, raised_at>>
    /\ Frame

\* lines 139-140: the last save, and return
FinalSave ==
    /\ pc = "finalized"
    /\ \E o \in SaveOutcomes :
          IF o = "ok"
          THEN store' = Saved(state) /\ pc' = "returned" /\ exc' = exc
          ELSE store' = store /\ pc' = "raised" /\ exc' = StoreError
    /\ UNCHANGED <<state, current_step, previous_step, delivered, breached,
                   retry_log, raised_at>>
    /\ Frame

(***************************************************************************)
(* orchestrate, lines 141-156: the except clause.  An exception raised     *)
(* inside it is not caught: it leaves orchestrate.                         *)
(***************************************************************************)
\* lines 142-153: mark the run failed and emit the event
HandleFailure ==
    /\ pc = "raised"
    /\ LET st0 == add_error([state EXCEPT !.status = "failed",
                                          !.end_time = "at_failure",
                                          !.run_status = "failed"], exc)
           st == emit_event(st0,
                            IF st0.current_agent # None THEN st0.current_agent
                            ELSE "workflow",
                            "failed", "error", exc)
       IN /\ state' = AfterSink(progress_callback, st)
          /\ delivered' = Deliver(delivered, progress_callback, st)
          /\ \E o \in SinkOutcomes :
                IF o = "ok"
                THEN pc' = "fail_emitted" /\ exc' = exc
                ELSE pc' = "escaped" /\ exc' = SinkError
    /\ UNCHANGED <<current_step, previous_step, store, breached, retry_log, raised_at>>
    /\ Frame

\* lines 154-156: save the failed record and return it
FailSave ==
    /\ pc = "fail_emitted"
    /\ \E o \in SaveOutcomes :
          IF o = "ok"
          THEN store' = Saved(state) /\ pc' = "returned" /\ exc' = NoMessage
          ELSE store' = store /\ pc' = "escaped" /\ exc' = StoreError
    /\ UNCHANGED <<state, current_step, previous_step, delivered, breached,
                   retry_log, raised_at>>
    /\ Frame

Next ==
    \/ Start
    \/ EmitStarted
    \/ AutoApprove
    \/ Pause
    \/ PauseSave
    \/ RetryGate
    \/ EnterStep
    \/ WorkerReturns
    \/ WorkerRaises
    \/ SaveStep
    \/ SlaAndRoute
    \/ EnterDelivery
    \/ Finalize
    \/ FinalSave
    \/ HandleFailure
    \/ FailSave

\* every call on a fresh request, with a sink and a store that keep their contracts
Spec == Init /\ [][Next]_vars

\* orchestrate is sequential code: it takes its next step as long as it has
\* one, provided every worker invocation returns or raises
FairSpec == Spec /\ WF_vars(Next)

\* calls where the store may fail and the sink may raise
FaultRequests ==
    { Payload("es", p, 100, m, FALSE, orch) :
        p \in {1, 16}, m \in {0, 1}, orch \in {o \in Orchestrators : ~o.use_real_llm} }

InitFaults == InitCall(FaultRequests, FaultRequests, {"ok", "raises"}, BOOLEAN, {NoOther})

SpecFaults == InitFaults /\ [][Next]_vars

\* calls with any sink that returns normally: none, one that only reads what
\* it is given, one that writes into the event it is given
SinkRequests ==
    { Payload("es", p, 100, m, f, orch) :
        p \in {1, 16}, m \in 0..MaxRetriesBound, f \in BOOLEAN,
        orch \in {o \in Orchestrators : ~o.use_real_llm} }

InitSinks == InitCall(SinkRequests, {}, {None, "ok", "edits"}, {FALSE}, {NoOther})

SpecSinks == InitSinks /\ [][Next]_vars

\* a second call of orchestrate, lines 26-32, that resumes a paused run: its
\* initial_request is the paused State Record, as the first call returned it
\* or as StateManager.load reads it back, with approval_granted set.
\* WorkflowState(**initial_request) takes every field from the record.
Resume ==
    /\ pc = "returned"
    /\ state.status = "paused"
    /\ call = NoCall
    /\ \E rec \in {state, load(store).state} :
          state' = [rec EXCEPT !.approval_granted = "True"]
    /\ pc' = "constructed"
    /\ current_step' = None
    /\ previous_step' = None
    /\ auto_approve' \in BOOLEAN
    /\ call' = [step |-> "resume"]
    /\ exc' = NoMessage
    /\ delivered' = <<>>
    /\ retry_log' = <<>>
    /\ outcomes' = <<>>
    /\ UNCHANGED <<progress_callback, request, store, breached, store_faulty,
                   sla_tight, raised_at, result, other>>

NextResume == Next \/ Resume

\* the calls of Spec, and after a paused one the call that resumes it
SpecResume == Init /\ [][NextResume]_vars

(***************************************************************************)
(* The router as a pure function: any step name, any State Record.         *)
(***************************************************************************)
StepNames == WorkerNames \cup {"pause_for_approval", "end", "translate"}

QAStatusInputs == {None, QAStatus_PASS, QAStatus_FAIL, "pass", "fail"}

JudgeActionInputs == {None, "accept", "retry", "human_review"}

RouterRequest == Payload("es", 1, 100, 0, FALSE, CHOOSE o \in Orchestrators : ~o.use_real_llm)

RouterStates ==
    { [WorkflowState(RouterRequest) EXCEPT
          !.status = "in_progress",
          !.requires_approval = ra,
          !.approval_granted = ag,
          !.qa_status = qa,
          !.judge_action = ja,
          !.retry_count = rc,
          !.max_retries = mr] :
      ra \in BOOLEAN, ag \in {None, "True", "False"}, qa \in QAStatusInputs,
      ja \in JudgeActionInputs, rc \in 0..MaxRetriesBound, mr \in 0..MaxRetriesBound }

InitRouter ==
    /\ call \in [step : StepNames, st : RouterStates]
    /\ result = None
    /\ pc = "call"
    /\ state = call.st
    /\ request = RouterRequest
    /\ current_step = None
    /\ previous_step = None
    /\ auto_approve = TRUE
    /\ progress_callback = None
    /\ exc = NoMessage
    /\ store = [present |-> FALSE]
    /\ delivered = <<>>
    /\ breached = FALSE
    /\ store_faulty = FALSE
    /\ sla_tight = FALSE
    /\ retry_log = <<>>
    /\ raised_at = NotRaised
    /\ outcomes = <<>>
    /\ other = NoOther

\* determine_next_step(current_step, state) is called; state is passed by reference
Route ==
    /\ pc = "call"
    /\ result' = determine_next_step(call.step, state)
    /\ pc' = "routed"
    /\ UNCHANGED <<state, current_step, previous_step, auto_approve, progress_callback,
                   request, exc, store, delivered, breached, store_faulty, sla_tight,
                   retry_log, raised_at, outcomes, call, other>>

NextRouter == Route

SpecRouter == InitRouter /\ [][NextRouter]_vars

(***************************************************************************)
(* _derive_run_status as a pure function: any status, any inputs.          *)
(***************************************************************************)
ErrorsInputs == {<<>>, << WorkerError("execution") >>}

WarningsInputs == {<<>>, << <<"SLA threshold exceeded">> >>}

DeriveStates ==
    { [WorkflowState(RouterRequest) EXCEPT
          !.status = s,
          !.errors = es,
          !.warnings = ws,
          !.qa_status = qa,
          !.judge_action = ja,
          !.retry_count = rc,
          !.max_retries = MaxRetriesBound] :
      s \in WorkflowStatus, es \in ErrorsInputs, ws \in WarningsInputs,
      qa \in QAStatusInputs, ja \in JudgeActionInputs, rc \in 0..MaxRetriesBound }

InitDerive ==
    /\ call \in [step : {"derive_run_status"}, st : DeriveStates]
    /\ result = None
    /\ pc = "call"
    /\ state = call.st
    /\ request = RouterRequest
    /\ current_step = None
    /\ previous_step = None
    /\ auto_approve = TRUE
    /\ progress_callback = None
    /\ exc = NoMessage
    /\ store = [present |-> FALSE]
    /\ delivered = <<>>
    /\ breached = FALSE
    /\ store_faulty = FALSE
    /\ sla_tight = FALSE
    /\ retry_log = <<>>
    /\ raised_at = NotRaised
    /\ outcomes = <<>>
    /\ other = NoOther

\* self._derive_run_status(state) is called
Derive ==
    /\ pc = "call"
    /\ result' = DeriveRunStatusCall(state).label
    /\ state' = DeriveRunStatusCall(state).state
    /\ pc' = "derived"
    /\ UNCHANGED <<current_step, previous_step, auto_approve, progress_callback,
                   request, exc, store, delivered, breached, store_faulty, sla_tight,
                   retry_log, raised_at, outcomes, call, other>>

NextDerive == Derive

SpecDerive == InitDerive /\ [][NextDerive]_vars

(***************************************************************************)
(* The claims.                                                             *)
(***************************************************************************)
Returned == pc = "returned"

ExecutionEntries == Count(state.route_history, "execution")

\* C1: in every reachable state of a run started with retry_count = 0 and
\* max_retries >= 0, also where an event is emitted or the record is saved,
\* 0 <= retry_count <= max_retries.
C1_RetryCountWithinBudget ==
    /\ 0 <= state.retry_count
    /\ state.retry_count <= state.max_retries
    /\ store.present =>
          /\ 0 <= store.record.retry_count
          /\ store.record.retry_count <= store.record.max_retries
    /\ \A i \in 1..Len(delivered) :
          /\ 0 <= delivered[i][2].retry_count
          /\ delivered[i][2].retry_count <= state.max_retries

\* C1 witness: a returned run that used its whole budget of two or more
\* retries while the judge still asks for one
C1_Witness ==
    /\ Returned
    /\ state.max_retries >= 2
    /\ state.retry_count = state.max_retries
    /\ state.judge_action = "retry"
    /\ store.present
    /\ delivered # <<>>

\* an increment of retry_count has happened and the repeated execution entry
\* has not been appended yet (lines 88-99: the 'retry' event is emitted here)
RetryPending ==
    /\ retry_log # <<>>
    /\ Last(retry_log).at = Len(state.route_history)

\* the parts of C2 about each increment and each repeated execution entry
C2_Increments ==
    /\ state.retry_count = Len(retry_log)
    /\ \A i \in 1..Len(retry_log) :
          /\ retry_log[i].last \in {"qa", "judge"}
          /\ retry_log[i].routed = "execution"
          /\ state.route_history[retry_log[i].at] = retry_log[i].last
          /\ Len(state.route_history) > retry_log[i].at
                => state.route_history[retry_log[i].at + 1] = "execution"
    /\ \A j \in 1..Len(state.route_history) :
          (/\ state.route_history[j] = "execution"
           /\ \E k \in 1..(j - 1) : state.route_history[k] = "execution")
             => Cardinality({i \in 1..Len(retry_log) : retry_log[i].at = j - 1}) = 1
    /\ ExecutionEntries <= state.max_retries + 1

\* C2 (as stated): every increment of retry_count follows a qa or judge entry
\* that the router sent back to execution and is followed by an execution
\* entry, every repeated execution entry is preceded by exactly one increment,
\* and in every state in which execution has been entered the number of
\* execution entries is retry_count + 1 and at most max_retries + 1.
C2_Original ==
    /\ C2_Increments
    /\ ExecutionEntries > 0 => ExecutionEntries = state.retry_count + 1

\* C2 (amended): as stated, except that between an increment and the append of
\* the repeated execution entry (where the 'retry' event is emitted) the
\* number of execution entries equals retry_count.
C2_Amended ==
    /\ C2_Increments
    /\ ExecutionEntries > 0 =>
          ExecutionEntries = state.retry_count + (IF RetryPending THEN 0 ELSE 1)

\* C2 witness: the second retry of a run, one triggered by QA and one by the
\* judge, at the point where its 'retry' event has been emitted
C2_Witness ==
    /\ pc = "gated"
    /\ RetryPending
    /\ state.retry_count = 2
    /\ {retry_log[1].last, retry_log[2].last} = {"qa", "judge"}
    /\ ExecutionEntries = 2

(***************************************************************************)
(* C3: the canonical path as an automaton.  Every state but "dead" can     *)
(* reach the accepting state, so a sequence is a prefix of a word iff it   *)
(* does not lead to "dead".                                                *)
(***************************************************************************)
\* [intake, planner, (pause_for_approval)?, execution, qa, (execution, qa)*,
\*  judge, (execution, qa, judge)*, delivery]
CanonicalStep(q, x) ==
    CASE q = "start" /\ x = "intake" -> "intake"
      [] q = "intake" /\ x = "planner" -> "planner"
      [] q = "planner" /\ x = "pause_for_approval" -> "pause"
      [] q \in {"planner", "pause"} /\ x = "execution" -> "execution1"
      [] q = "execution1" /\ x = "qa" -> "qa1"
      [] q = "qa1" /\ x = "execution" -> "execution1"
      [] q = "qa1" /\ x = "judge" -> "judge"
      [] q = "judge" /\ x = "execution" -> "execution2"
      [] q = "execution2" /\ x = "qa" -> "qa2"
      [] q = "qa2" /\ x = "judge" -> "judge"
      [] q = "judge" /\ x = "delivery" -> "delivery"
      [] OTHER -> "dead"

\* the same with the retry group after a judge being ((execution, qa)+, judge)
AmendedStep(q, x) ==
    IF q = "qa2" /\ x = "execution" THEN "execution2" ELSE CanonicalStep(q, x)

RECURSIVE CanonicalRun(_, _)
CanonicalRun(q, seq) ==
    IF seq = <<>> THEN q ELSE CanonicalRun(CanonicalStep(q, Head(seq)), Tail(seq))

RECURSIVE AmendedRun(_, _)
AmendedRun(q, seq) ==
    IF seq = <<>> THEN q ELSE AmendedRun(AmendedStep(q, Head(seq)), Tail(seq))

\* C3 (as stated): route_history is always a prefix of a word of the canonical path
C3_Original == CanonicalRun("start", state.route_history) # "dead"

\* C3 (amended): route_history is always a prefix of a word of
\* [intake, planner, (pause_for_approval)?, execution, qa, (execution, qa)*,
\*  judge, ((execution, qa)+, judge)*, delivery]: after a judge retry, QA may
\* send the run back to execution again before the judge is re-entered.
C3_Amended == AmendedRun("start", state.route_history) # "dead"

\* C3 witness: a completed run in which a QA retry followed a judge retry
C3_Witness ==
    /\ Returned
    /\ state.status = "completed"
    /\ \E i \in 1..Len(state.route_history) :
          /\ i + 3 <= Len(state.route_history)
          /\ state.route_history[i] = "judge"
          /\ state.route_history[i + 1] = "execution"
          /\ state.route_history[i + 2] = "qa"
          /\ state.route_history[i + 3] = "execution"
    /\ Last(state.route_history) = "delivery"

(***************************************************************************)
(* C4: the routing table, as the claim words it.                           *)
(***************************************************************************)
RoutingTable(step, st) ==
    CASE step = "intake" -> "planner"
      [] step = "planner" ->
            IF st.requires_approval = TRUE /\ st.approval_granted = None
            THEN "pause_for_approval" ELSE "execution"
      [] step = "execution" -> "qa"
      [] step = "qa" ->
            IF st.qa_status \in {QAStatus_FAIL, "fail"} /\ st.retry_count < st.max_retries
            THEN "execution" ELSE "judge"
      [] step = "judge" ->
            IF st.judge_action = "retry" /\ st.retry_count < st.max_retries
            THEN "execution" ELSE "delivery"
      [] OTHER -> "end"

\* C4: determine_next_step returns, for every step name and every state, the
\* step of the routing table, always a member of {planner, pause_for_approval,
\* execution, qa, judge, delivery, end}, and leaves the state as it was.
C4_RouterTable ==
    pc = "routed" =>
        /\ result = RoutingTable(call.step, call.st)
        /\ result \in RouterSteps
        /\ state = call.st

\* C4 witness: the router has sent a failed QA back to execution
C4_Witness ==
    /\ pc = "routed"
    /\ call.step = "qa"
    /\ call.st.qa_status = QAStatus_FAIL
    /\ call.st.retry_count < call.st.max_retries
    /\ result = "execution"

(***************************************************************************)
(* C5 - C8: failures and the approval pause.                               *)
(***************************************************************************)
\* C5: orchestrate never lets an exception escape to its caller, whatever
\* fails: the first save, the 'workflow started' event, a step, a later save
\* or an event delivery to the progress sink.
C5_NoExceptionEscapes == pc # "escaped"

\* the events appended since the worker raised
EventsSinceRaise ==
    SubSeq(state.events, Len(raised_at.before.events) + 1, Len(state.events))

\* C6: when the worker of a step raises, the run ends at once: no later step
\* is entered and retry_count is not incremented (in every state from the
\* raise on), and the run returns with that step's step_status failed, status
\* and run_status failed, end_time set, the exception message in errors,
\* route_history ending with the failing step, and only the two 'failed'
\* events after the step's 'in_progress' event (no re-attempt).
C6_WorkerFailureEndsRun ==
    raised_at.present =>
        /\ pc \in {"raised", "fail_emitted", "returned"}
        /\ state.route_history = raised_at.before.route_history
        /\ Last(state.route_history) = raised_at.step
        /\ state.retry_count = raised_at.before.retry_count
        /\ state.step_status[raised_at.step] = "failed"
        /\ \A k \in WorkerNames \ {raised_at.step} :
              state.step_status[k] = raised_at.before.step_status[k]
        /\ \A i \in 1..Len(EventsSinceRaise) : EventsSinceRaise[i].status = "failed"
        /\ Returned =>
              /\ state.status = "failed"
              /\ state.run_status = "failed"
              /\ state.end_time # None
              /\ Contains(state.errors, raised_at.message)
              /\ Len(EventsSinceRaise) = 2

\* C6 witness: execution raised on a retry, and the run has returned
C6_Witness ==
    /\ Returned
    /\ raised_at.present
    /\ raised_at.step = "execution"
    /\ state.retry_count = 1
    /\ state.status = "failed"

\* the requests intake rejects, as the claim words them
BlankText(req) == req.raw_words = 0

SameLanguage(req) == Strip(Lower(req.source_language)) = Strip(Lower(req.target_language))

InvalidRequest(req) == BlankText(req) \/ SameLanguage(req) \/ req.page_count < 1

\* C7: a request with blank raw_text, or source and target language equal after
\* trimming and lower-casing, or page_count < 1, fails at intake: no state has
\* a step other than intake entered, and the run returns with status failed,
\* exactly one message in errors, route_history = [intake], step_status[intake]
\* = failed and every other step pending.
C7_InvalidRequestFailsAtIntake ==
    InvalidRequest(request) =>
        /\ \A i \in 1..Len(state.route_history) : state.route_history[i] = "intake"
        /\ Len(state.route_history) <= 1
        /\ Returned =>
              /\ state.status = "failed"
              /\ Len(state.errors) = 1
              /\ state.route_history = <<"intake">>
              /\ state.step_status["intake"] = "failed"
              /\ \A k \in WorkerNames \ {"intake"} : state.step_status[k] = "pending"

\* C7 witness: a returned run whose only fault is a target language that
\* equals the source after trimming and lower-casing
C7_Witness ==
    /\ Returned
    /\ request.source_language # request.target_language
    /\ SameLanguage(request)
    /\ ~BlankText(request)
    /\ request.page_count >= 1
    /\ state.status = "failed"
    /\ state.errors = << <<"source and target language must differ">> >>

\* the planner asked for approval, none was given and auto-approve is off
ApprovalPending == state.requires_approval /\ state.approval_granted = None /\ ~auto_approve

\* C8: when the planner result requires approval, approval_granted is unset
\* and auto-approve is disabled, no worker after planner is invoked and
\* orchestrate returns with status paused, a non-null pause_reason,
\* step_status[execution] pending and end_time unset; the response has status
\* 'paused' and a pause_reason.  Every valid request with page_count > 15 whose
\* intake and planner do not fail ends this way.
C8_PausesForApproval ==
    /\ ApprovalPending =>
          /\ state.route_history = <<"intake", "planner">>
          /\ \A i \in 1..Len(outcomes) : outcomes[i][1] \in {"intake", "planner"}
          /\ state.step_status["execution"] = "pending"
          /\ state.end_time = None
          /\ Returned =>
                /\ state.status = "paused"
                /\ state.pause_reason # NoMessage
                /\ Last(state.events).status = "paused"
                /\ to_response(state).kind = "paused"
                /\ to_response(state).status = "paused"
                /\ to_response(state).pause_reason # NoMessage
    /\ (/\ Returned
        /\ ~InvalidRequest(request)
        /\ request.page_count > 15
        /\ ~auto_approve
        /\ ~raised_at.present) => (ApprovalPending /\ state.status = "paused")

\* C8 witness: a short document of 16 pages, paused and returned
C8_Witness ==
    /\ Returned
    /\ ApprovalPending
    /\ request.page_count = 16
    /\ request.raw_words = 100
    /\ state.status = "paused"
    /\ to_response(state).kind = "paused"

(***************************************************************************)
(* C9, C10: the two scenarios of the repository's tests.                   *)
(***************************************************************************)
IsQaOutcome(o) == o[1] = "qa"

QaOutcomes == SelectSeq(outcomes, IsQaOutcome)

NoWorkerRaised == \A i \in 1..Len(outcomes) : outcomes[i][2] # "raised"

NoJudgeRetry == \A i \in 1..Len(outcomes) : outcomes[i] # <<"judge", "retry">>

\* max_retries >= 1, QA fails on its first call only (force_qa_fail_once),
\* every other worker succeeds, the judge never asks for a retry, and the run
\* is not held at the approval gate
C9_Scenario ==
    /\ request.max_retries >= 1
    /\ request.force_qa_fail_once
    /\ NoWorkerRaised
    /\ NoJudgeRetry
    /\ \A i \in 1..Len(QaOutcomes) : QaOutcomes[i][2] = (IF i = 1 THEN "fail" ELSE "pass")
    /\ ~ApprovalPending

\* C9: in that scenario the run terminates, and it returns with status
\* completed, retry_count 1, a final QA status of pass, and execution and qa
\* each exactly twice in route_history.
C9_ForcedQaFailureRetriesOnce ==
    /\ <>Returned
    /\ [](Returned /\ C9_Scenario =>
            /\ state.status = "completed"
            /\ state.retry_count = 1
            /\ QAStatusValue(state.qa_status) = "pass"
            /\ Count(state.route_history, "execution") = 2
            /\ Count(state.route_history, "qa") = 2)

\* C9 witness: such a run has returned, from a budget of two retries
C9_Witness ==
    /\ Returned
    /\ C9_Scenario
    /\ request.max_retries = 2
    /\ QaOutcomes = << <<"qa", "fail">>, <<"qa", "pass">> >>
    /\ state.retry_count = 1

\* no approval is required, every worker succeeds, QA passes on the first
\* attempt and the judge does not ask for a retry
C10_Scenario ==
    /\ ~state.requires_approval
    /\ NoWorkerRaised
    /\ NoJudgeRetry
    /\ QaOutcomes # <<>> /\ QaOutcomes[1][2] = "pass"

\* C10: such a run ends with status completed, retry_count 0 and route_history
\* exactly [intake, planner, execution, qa, judge, delivery].
C10_HappyPath ==
    (Returned /\ C10_Scenario) =>
        /\ state.status = "completed"
        /\ state.retry_count = 0
        /\ state.route_history =
              <<"intake", "planner", "execution", "qa", "judge", "delivery">>

\* C10 witness: the happy path has returned, with a budget it did not use
C10_Witness ==
    /\ Returned
    /\ C10_Scenario
    /\ request.max_retries >= 1
    /\ state.judge_action = "accept"
    /\ state.run_status = "completed"
    /\ Len(state.route_history) = 6

(***************************************************************************)
(* C11: a retry the judge asks for when the budget is used up.             *)
(***************************************************************************)
\* the retries the judge has asked for, and those the retry gate has granted it
JudgeRetryRequests == Count(outcomes, <<"judge", "retry">>)

JudgeRetriesGranted ==
    Cardinality({i \in 1..Len(retry_log) : retry_log[i].last = "judge"})

\* the judge's last result asked for a retry while retry_count = max_retries
JudgeRetryDenied ==
    /\ JudgeRetryRequests > JudgeRetriesGranted
    /\ state.retry_count = state.max_retries

\* C11: when the judge result's action is retry and retry_count = max_retries
\* at that moment, the step entered after judge is delivery, not execution,
\* retry_count is left unchanged (no increment follows), and the run, when
\* delivery does not raise, returns with status completed and run_status
\* completed_with_warnings.
C11_ExhaustedJudgeRetryDelivers ==
    JudgeRetryDenied =>
        /\ state.judge_action = "retry"
        /\ Len(retry_log) = state.max_retries
        /\ \/ Last(state.route_history) = "judge"
           \/ /\ Last(state.route_history) = "delivery"
              /\ state.route_history[Len(state.route_history) - 1] = "judge"
        /\ (pc = "loop" /\ Last(state.route_history) = "judge")
              => current_step = "delivery"
        /\ (Returned /\ NoWorkerRaised) =>
              /\ state.status = "completed"
              /\ state.run_status = "completed_with_warnings"
              /\ Last(state.route_history) = "delivery"

\* C11 witness: a returned run whose two retries were used up before the
\* judge asked for another one
C11_Witness ==
    /\ Returned
    /\ JudgeRetryDenied
    /\ state.max_retries = 2
    /\ state.retry_count = 2
    /\ state.run_status = "completed_with_warnings"
    /\ Last(state.route_history) = "delivery"

(***************************************************************************)
(* C12, C13: the derivation of run_status.                                 *)
(***************************************************************************)
\* the label, as the claim words it
RunStatusTable(st) ==
    IF st.status = "failed" THEN "failed"
    ELSE IF st.status = "paused" THEN "paused"
    ELSE IF \/ st.errors # <<>>
            \/ st.warnings # <<>>
            \/ st.qa_status \in {QAStatus_FAIL, "fail"}
            \/ (st.judge_action # None /\ st.judge_action # "accept")
            \/ st.retry_count > 0
    THEN "completed_with_warnings" ELSE "completed"

\* C12: _derive_run_status returns failed if status is failed, paused if
\* status is paused, otherwise completed_with_warnings iff errors or warnings
\* is non-empty, the last QA status is fail, the last judge action is not
\* accept (a missing action counts as accept) or retry_count > 0, otherwise
\* completed, for every combination of those inputs.
C12_RunStatusTable ==
    pc = "derived" => result = RunStatusTable(call.st)

\* C12 witness: a used retry alone degrades the label
C12_Witness ==
    /\ pc = "derived"
    /\ call.st.status = "completed"
    /\ call.st.errors = <<>> /\ call.st.warnings = <<>>
    /\ call.st.qa_status = QAStatus_PASS
    /\ call.st.judge_action = "accept"
    /\ call.st.retry_count > 0
    /\ result = "completed_with_warnings"

\* the fields the statements around a derivation assign: at line 121-124 (before
\* delivery, with the entry into the step) and at lines 128-138 (finalization)
AssignedBeforeDelivery ==
    {"route_history", "status", "end_time", "run_status", "current_agent",
     "step_status", "events"}

AssignedAtFinalize == {"status", "end_time", "run_status", "events"}

\* a step of orchestrate that derives run_status leaves every other field of
\* the State Record, errors and warnings among them, as it was
C13_PureRead ==
    /\ (pc = "loop" /\ current_step = "delivery") =>
          \A f \in DOMAIN state \ AssignedBeforeDelivery : state'[f] = state[f]
    /\ AtFinalize =>
          \A f \in DOMAIN state \ AssignedAtFinalize : state'[f] = state[f]

\* deriving again from the record a run ends with gives the label it holds,
\* and the label computed before delivery (the one the envelope was built
\* with) is the label computed at finalization
C13_SameLabel ==
    pc \in {"finalized", "returned"} =>
        /\ DeriveRunStatusCall(state).label = state.run_status
        /\ DeriveRunStatusCall(state).state = state
        /\ (state.status = "completed" /\ state.final_output.present) =>
              state.final_output.status = state.run_status

\* C13: deriving run_status is a pure read: it changes no field of the State
\* Record (in particular not errors or warnings), deriving it twice from the
\* same terminal State Record yields the same label, and the label computed
\* before the delivery step equals the label computed at finalization.
C13_DerivationIsPureRead == []C13_SameLabel /\ [][C13_PureRead]_vars

\* C13 witness: a clean run has returned; both derivations gave completed
C13_Witness ==
    /\ Returned
    /\ state.status = "completed"
    /\ state.warnings = <<>> /\ state.errors = <<>>
    /\ state.final_output.present
    /\ state.final_output.status = "completed"
    /\ state.run_status = "completed"

(***************************************************************************)
(* C14 - C16: status, pause_reason and run_status over a run.              *)
(***************************************************************************)
PausedIffReason(st) ==
    (st.status = "paused") <=> (st.pause_reason # NoMessage /\ st.approval_granted = None)

\* C14: in every reachable state of a run, including each state at which an
\* event is emitted or the record is persisted, status = paused if and only if
\* pause_reason is non-null and approval_granted is unset; in particular
\* pause_reason is null whenever status is in_progress, completed or failed,
\* also after a planner result that requested approval.
C14_PausedIffPauseReason ==
    /\ PausedIffReason(state)
    /\ store.present => PausedIffReason(store.record)

TerminalStatus == {"completed", "failed"}

\* C15: within one run, status takes a terminal value (completed or failed) at
\* most once: once status is completed or failed it never changes to another
\* value, for every sequence of worker outcomes, a failure of the delivery
\* worker included.
C15_TerminalStatusOnce ==
    [][state.status \in TerminalStatus => state'.status = state.status]_vars

TerminalLabels == {"completed", "completed_with_warnings"}

\* one step of a run, as C16 constrains it
C16_Step ==
    /\ state.run_status \in TerminalLabels =>
          \/ state'.run_status = state.run_status
          \/ state'.run_status = "failed" /\ pc = "raised"
    /\ state.run_status = "failed" => state'.run_status = "failed"

\* C16: once run_status has taken a terminal label (completed or
\* completed_with_warnings) it keeps that label until the run returns, except
\* that a failure path overwrites it with failed; a run_status of failed is
\* never overwritten by any other label.
C16_TerminalLabelKept == [][C16_Step]_vars

\* C16 witness: the delivery worker raised after the label had been derived,
\* and the run returned failed
C16_Witness ==
    /\ Returned
    /\ raised_at.present
    /\ raised_at.step = "delivery"
    /\ raised_at.before.run_status = "completed_with_warnings"
    /\ state.run_status = "failed"

(***************************************************************************)
(* C17: the twin of a run: the run of the same request, with the same      *)
(* worker outcomes, in which the SLA monitor never reports a breach.  It   *)
(* is replayed from the outcomes of the run, statement by statement of     *)
(* orchestrate, with the SLA check answering False.                        *)
(***************************************************************************)
\* lines 33-46
TwinStart ==
    emit_event([WorkflowState(request) EXCEPT
                    !.start_time = "at_start",
                    !.status = "in_progress",
                    !.run_status = "in_progress",
                    !.step_status = [k \in WorkerNames |-> "pending"]],
               "workflow", "started", "info", <<"Workflow started.">>)

\* lines 128-138
TwinFinalize(st) ==
    LET st0 == [st EXCEPT !.status = "completed",
                          !.end_time = IF @ # None THEN @ ELSE "at_finalize"]
        st1 == [st0 EXCEPT !.run_status = derive_run_status(st0)]
    IN emit_event(st1, "workflow", st1.run_status, "info",
                  <<"Workflow finished with status: ", st1.run_status>>)

\* _execute_step lines 181-191, then lines 142-153
TwinFail(st, step, e) ==
    LET st0 == emit_event(set_step_status(st, step, "failed"), step, "failed", "error", e)
        st1 == add_error([st0 EXCEPT !.status = "failed",
                                     !.end_time = "at_failure",
                                     !.run_status = "failed"], e)
    IN emit_event(st1, st1.current_agent, "failed", "error", e)

\* lines 82-98, and line 100 or lines 121-124, then _execute_step lines 164-176
TwinEnter(st, cur, prev) ==
    LET st0 == [st EXCEPT !.retry_count = IncrementRetry(@)]
        retry_message == <<"Retrying translation, attempt ", Str(st0.retry_count)>>
        gated == IF RetryGateOpen(cur, prev, st)
                 THEN emit_event(add_warning(st0, retry_message),
                                 "execution", "retry", "warning", retry_message)
                 ELSE st
        st1 == [gated EXCEPT !.route_history = Append(@, cur)]
        st2 == IF cur # "delivery" THEN st1
               ELSE [st1 EXCEPT !.status = "completed",
                                !.end_time = "at_delivery",
                                !.run_status = derive_run_status(
                                    [st1 EXCEPT !.status = "completed"])]
    IN emit_event(set_step_status([st2 EXCEPT !.current_agent = cur], cur, "in_progress"),
                  cur, "in_progress", "info", <<cur, " started.">>)

\* _execute_step lines 193-207
TwinComplete(st, cur, o) ==
    LET res == CHOOSE r \in WorkerResults(cur, st, request) : Outcome(cur, r) = o
        st0 == [st EXCEPT !.agent_timings = @ \cup {cur}]
        st1 == set_step_status(merge_result(st0, request, cur, res), cur, "completed")
        st2 == emit_event(st1, cur, "completed", "info", <<cur, " completed.">>)
    IN IF cur = "delivery" THEN refresh_delivery_metadata(st2) ELSE st2

\* the loop of lines 51-118 and what follows it, consuming the outcomes in order
RECURSIVE TwinRun(_, _, _, _)
TwinRun(st, cur, prev, outs) ==
    IF cur = "pause_for_approval"
    THEN IF auto_approve
         THEN TwinRun(emit_event([st EXCEPT !.approval_granted = "True",
                                            !.status = "in_progress",
                                            !.run_status = "in_progress",
                                            !.pause_reason = NoMessage],
                                 "approval", "auto_approved", "info",
                                 <<"Approval gate auto-approved by configuration.">>),
                      "execution", prev, outs)
         ELSE emit_event([st EXCEPT !.status = "paused",
                                    !.run_status = "paused",
                                    !.pause_reason = <<"Awaiting human approval">>],
                         "approval", "paused", "warning", <<"Awaiting human approval">>)
    ELSE IF cur = "end" THEN TwinFinalize(st)
    ELSE IF outs = <<>> THEN st
    ELSE LET entered == TwinEnter(st, cur, prev)
             o == Head(outs)[2]
         IN IF o = "raised"
            THEN TwinFail(entered, cur,
                          CHOOSE e \in WorkerFailures(cur, entered, request) : TRUE)
            ELSE IF cur = "delivery"
            THEN TwinFinalize(TwinComplete(entered, cur, o))
            ELSE TwinRun(TwinComplete(entered, cur, o),
                         determine_next_step(cur, TwinComplete(entered, cur, o)),
                         cur, Tail(outs))

Twin == TwinRun(TwinStart, "intake", None, outcomes)

SlaWarning == <<"SLA threshold exceeded">>

NotSlaWarning(w) == w # SlaWarning

NotSlaEvent(e) == e.status # "sla_warning"

\* an event without the run_status label the final event carries (the warning
\* the breach adds degrades that label, as any warning does)
WithoutLabel(e) ==
    IF e.step = "workflow" /\ e.status \in TerminalLabels
    THEN [e EXCEPT !.status = "finished", !.message = <<"Workflow finished">>]
    ELSE e

WithoutLabels(events) == [i \in 1..Len(events) |-> WithoutLabel(events[i])]

\* C17: a deadline breach never changes control flow: a returned run and its
\* twin (same request, same worker outcomes, no breach reported) have the same
\* route_history, retry_count, step_status and status; the breach only adds
\* the warning 'SLA threshold exceeded' and its event; it never fails, pauses,
\* aborts or retries the run.  A run without a breach is its own twin.  (The
\* events are compared up to the run_status label of the final event.)
C17_BreachIsAdvisory ==
    Returned =>
        /\ state.route_history = Twin.route_history
        /\ state.retry_count = Twin.retry_count
        /\ state.step_status = Twin.step_status
        /\ state.status = Twin.status
        /\ SelectSeq(state.warnings, NotSlaWarning) = Twin.warnings
        /\ WithoutLabels(SelectSeq(state.events, NotSlaEvent)) = WithoutLabels(Twin.events)
        /\ breached =>
              /\ Count(state.warnings, SlaWarning) = 1
              /\ Len(state.events) = Len(Twin.events) + 1
        /\ ~breached => state = Twin

\* C17 witness: a run that breached its SLA before a retry has returned
C17_Witness ==
    /\ Returned
    /\ breached
    /\ state.retry_count >= 1
    /\ state.status = "completed"
    /\ state.warnings[1] = SlaWarning
    /\ Last(state.route_history) = "delivery"

(***************************************************************************)
(* C18: quality failures are data, not failures of the run.                *)
(***************************************************************************)
\* the last QA status is fail, or the last judge action is not accept
QualityFailure(st) ==
    \/ QAStatusValue(st.qa_status) = "fail"
    \/ (st.judge_action # None /\ st.judge_action # "accept")

\* C18: if no worker raises, the run never has status failed, whatever the QA
\* and judge results are and whatever the retry budget is; and when the run
\* completes with a last QA status of fail or a last judge action other than
\* accept, status is completed and run_status is completed_with_warnings.
C18_QualityFailuresDegrade ==
    /\ NoWorkerRaised => (state.status # "failed" /\ state.run_status # "failed")
    /\ (Returned /\ NoWorkerRaised /\ state.status # "paused") =>
          state.status = "completed"
    /\ (Returned /\ state.status = "completed" /\ QualityFailure(state)) =>
          state.run_status = "completed_with_warnings"

\* C18 witness: a run without warnings and retries whose judge asked for a
\* human review has returned
C18_Witness ==
    /\ Returned
    /\ NoWorkerRaised
    /\ state.judge_action = "human_review"
    /\ QAStatusValue(state.qa_status) = "pass"
    /\ state.warnings = <<>>
    /\ state.retry_count = 0
    /\ state.status = "completed"
    /\ state.run_status = "completed_with_warnings"

(***************************************************************************)
(* C19, C20: the lists of the State Record.                                *)
(***************************************************************************)
NoDuplicates(seq) == \A i, j \in 1..Len(seq) : seq[i] = seq[j] => i = j

\* C19: in every reachable state the warnings list and the errors list each
\* contain no message twice, even when the same condition (a QA failure, a
\* judge retry request, an SLA breach) is recorded on several passes through
\* the retry loop, and including the warnings that
\* WorkflowOrchestrator.execute_workflow injects into the request before the
\* run starts.
C19_NoDuplicateMessages ==
    /\ NoDuplicates(state.warnings)
    /\ NoDuplicates(state.errors)

IsInProgressEvent(e) == e.status = "in_progress"

IsStepCompletedEvent(e) == e.status = "completed" /\ e.step \in WorkerNames

IsReturnedOutcome(o) == o[2] # "raised"

StepsOf(events) == [i \in 1..Len(events) |-> events[i].step]

\* the result of the step's last invocation is in the State Record
Merged(step, st, outcome) ==
    /\ st.step_status[step] = "completed"
    /\ step \in st.agent_timings
    /\ CASE step = "intake" -> st.normalized_request.present
         [] step = "planner" -> st.execution_plan # <<>>
         [] step = "execution" -> st.translation_output # None
         [] step = "qa" -> st.qa_status # None /\ QAStatusValue(st.qa_status) = outcome
         [] step = "judge" -> st.judge_action = outcome
         [] step = "delivery" -> st.final_output.present
         [] OTHER -> FALSE

\* C20: steps run strictly one after another and the event list serialises
\* them in order: every 'in_progress' event of a step is immediately followed
\* in events by the 'completed' or 'failed' event of the same step (nothing
\* follows it while the step runs), a step's 'completed' event is appended
\* only after its result has been merged into the State Record, and the order
\* of the in_progress events equals the order of route_history.
C20_EventsSerialiseSteps ==
    LET events == state.events
        completed == SelectSeq(events, IsStepCompletedEvent)
        returned == SelectSeq(outcomes, IsReturnedOutcome)
    IN /\ StepsOf(SelectSeq(events, IsInProgressEvent)) = state.route_history
       /\ \A i \in 1..Len(events) :
             events[i].status = "in_progress" =>
                IF i = Len(events) THEN pc = "running"
                ELSE /\ events[i + 1].step = events[i].step
                     /\ events[i + 1].status \in {"completed", "failed"}
       /\ Cardinality({k \in DOMAIN state.step_status :
                          state.step_status[k] = "in_progress"}) <= 1
       /\ Len(completed) = Len(returned)
       /\ \A k \in 1..Len(completed) : completed[k].step = returned[k][1]
       /\ (events # <<>> /\ IsStepCompletedEvent(Last(events))) =>
             Merged(Last(events).step, state, Last(outcomes)[2])
       /\ \A i \in 1..Len(delivered) :
             IsStepCompletedEvent(delivered[i][1]) =>
                delivered[i][2].step_status[delivered[i][1].step] = "completed"

\* C20 witness: the sink has received the 'completed' event of a QA that
\* failed, on a run that went on to retry and to finish
C20_Witness ==
    /\ Returned
    /\ state.status = "completed"
    /\ Count(state.route_history, "execution") = 2
    /\ QaOutcomes # <<>> /\ QaOutcomes[1][2] = "fail"
    /\ \E i \in 1..Len(delivered) :
          /\ delivered[i][1].step = "qa"
          /\ delivered[i][1].status = "completed"
          /\ Contains(delivered[i][2].warnings,
                      <<"QA check failed. Workflow may retry or require review.">>)

(***************************************************************************)
(* C21: the retry event and the retry warning.                             *)
(***************************************************************************)
IsRetryEvent(e) == e.status = "retry"

RetryMessage(n) == <<"Retrying translation, attempt ", Str(n)>>

IsRetryWarning(w) == w[1] = "Retrying translation, attempt "

\* the index in events of the first 'in_progress' event of execution (0: none)
FirstExecutionEvent ==
    LET entries == {i \in 1..Len(state.events) :
                       /\ state.events[i].step = "execution"
                       /\ state.events[i].status = "in_progress"}
    IN IF entries = {} THEN 0
       ELSE CHOOSE i \in entries : \A j \in entries : i <= j

\* C21: for every retry exactly one event with status 'retry' is emitted and
\* exactly one 'Retrying translation, attempt N' warning is recorded, and that
\* event is immediately followed by the 'in_progress' event of execution; the
\* number of retry events equals retry_count (in every state, so at return),
\* and no retry event is emitted on the first entry into execution (from
\* planner or from auto-approval).
C21_OneRetryEventPerRetry ==
    LET events == state.events
        retries == SelectSeq(events, IsRetryEvent)
    IN /\ Len(retries) = state.retry_count
       /\ Len(retries) = Len(retry_log)
       /\ \A n \in 1..Len(retries) :
             /\ retries[n].step = "execution"
             /\ retries[n].message = RetryMessage(n)
             /\ Count(state.warnings, RetryMessage(n)) = 1
       /\ Len(SelectSeq(state.warnings, IsRetryWarning)) = state.retry_count
       /\ \A i \in 1..Len(events) :
             IsRetryEvent(events[i]) =>
                IF i = Len(events) THEN pc = "gated"
                ELSE /\ events[i + 1].step = "execution"
                     /\ events[i + 1].status = "in_progress"
       /\ FirstExecutionEvent > 1 =>
             ~IsRetryEvent(events[FirstExecutionEvent - 1])

\* C21 witness: a run whose first entry into execution came from the
\* auto-approval, and which retried twice, has returned
C21_Witness ==
    /\ Returned
    /\ state.approval_granted = "True"
    /\ state.retry_count = 2
    /\ state.events[FirstExecutionEvent - 1].status = "auto_approved"
    /\ Len(SelectSeq(state.events, IsRetryEvent)) = 2

(***************************************************************************)
(* C22: the progress sink.                                                 *)
(***************************************************************************)
StepStatusPairs(events) == [i \in 1..Len(events) |-> <<events[i].step, events[i].status>>]

\* C22: the progress sink does not influence the run: for the same request
\* and the same worker outcomes, a run with a progress callback that returns
\* normally and the run with no callback (its twin: no run here breaches the
\* SLA) return State Records that agree on status, run_status, route_history,
\* step_status, retry_count, warnings, errors and the sequence of
\* (step, status) pairs of events.
C22_SinkDoesNotInfluenceRun ==
    (Returned /\ progress_callback # None) =>
        /\ state.status = Twin.status
        /\ state.run_status = Twin.run_status
        /\ state.route_history = Twin.route_history
        /\ state.step_status = Twin.step_status
        /\ state.retry_count = Twin.retry_count
        /\ state.warnings = Twin.warnings
        /\ state.errors = Twin.errors
        /\ StepStatusPairs(state.events) = StepStatusPairs(Twin.events)

(***************************************************************************)
(* C23: persistence during a run.                                          *)
(***************************************************************************)
\* C23: the State Record is persisted under its run_id after every executed
\* step (the record saved after a step is the record the step left, and it
\* is saved before the next step is entered), and whenever orchestrate
\* returns (completed, paused or failed) the persisted record for that run_id
\* equals the returned State Record (as the text of its JSON dump): no field
\* is changed after the last save.
C23_PersistedAfterEveryStep ==
    /\ pc \notin {"constructed"} =>
          (store.present /\ store.record.request_id = state.request_id)
    /\ pc = "saved" => store.record = model_dump_json(state)
    /\ (pc = "running" /\ Len(state.route_history) > 1) =>
          /\ store.record.route_history =
                SubSeq(state.route_history, 1, Len(state.route_history) - 1)
          /\ store.record.step_status[Last(store.record.route_history)] = "completed"
    /\ Returned =>
          /\ store.record = model_dump_json(state)
          /\ state.status \in {"completed", "paused", "failed"}

\* C23 witness: a failed run has returned, and its record is the saved one
C23_Witness ==
    /\ Returned
    /\ state.status = "failed"
    /\ Len(state.route_history) >= 3
    /\ store.present
    /\ store.record = model_dump_json(state)
    /\ store.record.errors # <<>>

(***************************************************************************)
(* C24: a saved record read back.                                          *)
(***************************************************************************)
\* the State Records a and b are equivalent, as C24 words it
EquivalentRecords(a, b) ==
    /\ a.request_id = b.request_id
    /\ a.status = b.status
    /\ a.run_status = b.run_status
    /\ a.route_history = b.route_history
    /\ a.step_status = b.step_status
    /\ a.retry_count = b.retry_count
    /\ a.approval_granted = b.approval_granted
    /\ a.pause_reason = b.pause_reason
    /\ a.warnings = b.warnings
    /\ a.errors = b.errors
    /\ \A step \in StepNames : determine_next_step(step, a) = determine_next_step(step, b)

\* C24: StateManager.load(run_id) after StateManager.save(state) returns a
\* State Record equivalent to state, for every state reachable in a run: the
\* same run_id, status, run_status, route_history, step_status, retry_count,
\* approval_granted, pause_reason, warnings and errors, and a QA/judge result
\* on which determine_next_step gives the same next step as on the original;
\* load of a run_id that was never saved returns no record.
C24_LoadAfterSave ==
    /\ load(Saved(state)).present
    /\ EquivalentRecords(load(Saved(state)).state, state)
    /\ (store.present /\ pc \in {"started", "saved", "returned"}) =>
          EquivalentRecords(load(store).state, state)
    /\ ~store.present => ~load(store).present

\* C24 witness: the record saved after a failed QA that the router sends back
\* to execution; the status is an enum member in memory and a string on file
C24_Witness ==
    /\ pc = "saved"
    /\ current_step = "qa"
    /\ state.qa_status = QAStatus_FAIL
    /\ load(store).state.qa_status = "fail"
    /\ state.retry_count < state.max_retries
    /\ determine_next_step("qa", load(store).state) = "execution"

(***************************************************************************)
(* C25: resuming a paused run.                                             *)
(***************************************************************************)
Resumed == call.step = "resume"

\* C25: a paused run can be resumed by a new orchestration call given the
\* paused State Record (freshly supplied or reloaded from persistence) with
\* approval granted: the call keeps the same run_id, continues from where
\* routing left off (the next step entered is execution), does not run
\* intake or planner again, and route_history of the resumed run extends
\* the paused run's [intake, planner] without repeating those entries.
C25_ResumeContinues ==
    Resumed =>
      /\ state.request_id = request.request_id
      /\ Len(state.route_history) >= 2
      /\ SubSeq(state.route_history, 1, 2) = <<"intake", "planner">>
      /\ Len(state.route_history) >= 3 => state.route_history[3] = "execution"
      /\ Count(state.route_history, "intake") = 1
      /\ Count(state.route_history, "planner") = 1
      /\ \A i \in 1..Len(outcomes) : outcomes[i][1] \notin {"intake", "planner"}

(***************************************************************************)
(* C26: two runs on one MasterAgent.  The MasterAgent holds the workers,   *)
(* a logger, the StateManager and the SLAMonitor (lines 20-24); the State  *)
(* Record and the loop's position are locals of each call.  The second run *)
(* is the variable other: it executes the same segments, taken whole from  *)
(* one suspension point (the await of line 182) to the next, while the     *)
(* first run is suspended, not yet started or returned.  Its request is    *)
(* the first run's under a run_id of its own; its workers answer on their  *)
(* own.  Both runs save into the one state directory.                      *)
(***************************************************************************)
\* mutant: every record goes to one file
state_path_OneFile(st) == "state"

\* StateManager.save line 15: the file of a record, state_dir / request_id.json
state_path(st) == st.request_id

\* the file of the record mine after save(st), file being what it held
SavedBy(st, mine, file) ==
    IF state_path(st) = state_path(mine) THEN Saved(st) ELSE file

\* the second call, at line 32: run_ids are generated per run (uuid4)
NewOther(req) ==
    [ phase |-> "new",
      state |-> WorkflowState([req EXCEPT !.request_id = "run-2"]),
      current_step |-> None,
      previous_step |-> None,
      outcomes |-> <<>>,
      file |-> [present |-> FALSE] ]

\* the first run is not inside one of its segments
AtSuspension == pc \in {"constructed", "running", "returned"}

\* the variables of the first run that the second run's code cannot name
FirstRunLocals ==
    UNCHANGED <<state, pc, current_step, previous_step, auto_approve,
                progress_callback, request, exc, delivered, breached, store_faulty,
                sla_tight, retry_log, raised_at, outcomes, call, result>>

\* lines 33-36 of the second call
OtherStart(st) ==
    [st EXCEPT !.start_time = "at_start",
               !.status = "in_progress",
               !.run_status = "in_progress",
               !.step_status = [k \in WorkerNames |-> "pending"]]

\* the second run from line 32 to its first await: lines 33-49, then intake
\* is entered
OtherStarts ==
    /\ AtSuspension
    /\ other.phase = "new"
    /\ LET st0 == OtherStart(other.state)
           st1 == emit_event(st0, "workflow", "started", "info", <<"Workflow started.">>)
       IN /\ other' = [other EXCEPT !.phase = "awaiting",
                                    !.state = TwinEnter(st1, "intake", None),
                                    !.current_step = "intake",
                                    !.file = Saved(st0)]
          /\ store' = SavedBy(st0, state, store)
    /\ FirstRunLocals

\* the second run's worker returns: _execute_step lines 193-207, the save
\* of line 102 or 126, then the loop up to the next await or to the return
OtherWorkerReturns ==
    /\ AtSuspension
    /\ other.phase = "awaiting"
    /\ \E o \in {Outcome(other.current_step, r) :
                     r \in WorkerResults(other.current_step, other.state, request)} :
          LET cur == other.current_step
              st1 == TwinComplete(other.state, cur, o)
              next == determine_next_step(cur, st1)
              routed == IF cur = "delivery" THEN TwinFinalize(st1)
                        ELSE TwinRun(st1, next, cur, <<>>)
              entering == IF next = "pause_for_approval" THEN "execution" ELSE next
              outs == Append(other.outcomes, <<cur, o>>)
          IN IF cur = "delivery" \/ routed.status = "paused"
             THEN /\ other' = [other EXCEPT !.phase = "returned",
                                            !.state = routed,
                                            !.outcomes = outs,
                                            !.file = Saved(routed)]
                  /\ store' = SavedBy(routed, state, SavedBy(st1, state, store))
             ELSE /\ other' = [other EXCEPT !.state = TwinEnter(routed, entering, cur),
                                            !.current_step = entering,
                                            !.previous_step = cur,
                                            !.outcomes = outs,
                                            !.file = Saved(st1)]
                  /\ store' = SavedBy(st1, state, store)
    /\ FirstRunLocals

\* the second run's worker raises: _execute_step lines 181-191, lines 141-155
OtherWorkerRaises ==
    /\ AtSuspension
    /\ other.phase = "awaiting"
    /\ \E e \in WorkerFailures(other.current_step, other.state, request) :
          LET st1 == TwinFail(other.state, other.current_step, e)
          IN /\ other' = [other EXCEPT !.phase = "returned",
                                       !.state = st1,
                                       !.outcomes = Append(@, <<other.current_step, "raised">>),
                                       !.file = Saved(st1)]
             /\ store' = SavedBy(st1, state, store)
    /\ FirstRunLocals

PairRequests ==
    { Payload("es", p, 100, m, FALSE, orch) :
        p \in {1, 16}, m \in {0, 1},
        orch \in {o \in Orchestrators : ~o.use_real_llm} }

InitPair ==
    /\ InitCall(PairRequests, {}, {None, "ok"}, {FALSE},
                {NewOther(req) : req \in PairRequests})
    /\ other = NewOther(request)

NextPair == Next \/ OtherStarts \/ OtherWorkerReturns \/ OtherWorkerRaises

\* two calls of orchestrate on one MasterAgent, interleaved at the awaits
SpecPair == InitPair /\ [][NextPair]_vars

\* what the second run produces when executed alone, from its own outcomes
OtherTwin ==
    TwinRun(emit_event(OtherStart(NewOther(request).state),
                       "workflow", "started", "info", <<"Workflow started.">>),
            "intake", None, other.outcomes)

LongestRoute(st) == 3 + 3 * (st.max_retries + 1)

IsJudgeOutcome(o) == o[1] = "judge"

JudgeOutcomes == SelectSeq(outcomes, IsJudgeOutcome)

\* C27: every run terminates: provided each worker invocation returns or
\* raises, orchestrate eventually returns with status completed, paused or
\* failed, for every finite max_retries and every sequence of QA and judge
\* outcomes, also one in which QA fails and the judge asks for a retry on
\* every pass.  The route is bounded by the retry budget all along.
C27_EveryRunTerminates ==
    /\ <>(Returned /\ state.status \in {"completed", "paused", "failed"})
    /\ [](Len(state.route_history) <= LongestRoute(state))

\* C27 witness: a run with the largest budget has returned although QA
\* failed on every pass and the judge asked for a retry
C27_Witness ==
    /\ Returned
    /\ state.status = "completed"
    /\ state.max_retries = MaxRetriesBound
    /\ Len(QaOutcomes) = MaxRetriesBound + 1
    /\ \A i \in 1..Len(QaOutcomes) : QaOutcomes[i][2] = "fail"
    /\ JudgeOutcomes = << <<"judge", "retry">> >>
    /\ ExecutionEntries = MaxRetriesBound + 1

(***************************************************************************)
(* C28: the response on completion.                                        *)
(***************************************************************************)
\* C28: on completion the response is the delivery envelope, and its status
\* and its metadata fields retry_count, route_history, step_status, events,
\* warnings and errors equal the corresponding fields of the State Record
\* that orchestrate returns (status equal to the final run_status, events
\* equal to the full event list).
C28_EnvelopeMatchesRecord ==
    (Returned /\ state.status = "completed") =>
        /\ to_response(state).kind = "envelope"
        /\ to_response(state).envelope.status = state.run_status
        /\ to_response(state).envelope.retry_count = state.retry_count
        /\ to_response(state).envelope.route_history = state.route_history
        /\ to_response(state).envelope.step_status = state.step_status
        /\ to_response(state).envelope.warnings = state.warnings
        /\ to_response(state).envelope.errors = state.errors
        /\ to_response(state).envelope.events = state.events

(***************************************************************************)
(* C29: status and run_status.                                             *)
(***************************************************************************)
\* run_status does not contradict status in the record or snapshot rec
Consistent(rec) ==
    /\ rec.status = "in_progress" => rec.run_status = "in_progress"
    /\ rec.status = "paused" <=> rec.run_status = "paused"
    /\ rec.status = "failed" <=> rec.run_status = "failed"
    /\ rec.status = "completed" <=>
            rec.run_status \in {"completed", "completed_with_warnings"}

\* C29: run_status never contradicts status: in every state observed by an
\* event or a save, status = in_progress implies run_status = in_progress,
\* status = paused iff run_status = paused, status = failed iff run_status =
\* failed, and status = completed iff run_status is completed or
\* completed_with_warnings.
C29_RunStatusAgreesWithStatus ==
    /\ \A i \in 1..Len(delivered) : Consistent(delivered[i][2])
    /\ store.present => Consistent(store.record)
    /\ pc # "constructed" => Consistent(state)

\* C29 witness: a run whose QA failed has returned completed with warnings,
\* observed by the sink and by the last save
C29_Witness ==
    /\ Returned
    /\ qa_failed(state)
    /\ delivered # <<>>
    /\ Last(delivered)[2].status = "completed"
    /\ Last(delivered)[2].run_status = "completed_with_warnings"
    /\ store.record.status = "completed"
    /\ store.record.run_status = "completed_with_warnings"
    /\ \E i \in 1..Len(delivered) : delivered[i][2].status = "in_progress"

(***************************************************************************)
(* C30: end_time.                                                          *)
(***************************************************************************)
\* end_time is null exactly while the record rec is not in a terminal status
EndTimeMatchesStatus(rec) ==
    /\ rec.status \in {"in_progress", "paused"} => rec.end_time = None
    /\ rec.status \in {"completed", "failed"} => rec.end_time # None

\* a step that changes an end_time already set is the failure path's
C30_Step ==
    (state.end_time # None /\ state'.end_time # state.end_time) =>
        /\ pc = "raised"
        /\ state'.status = "failed"
        /\ state'.end_time = "at_failure"

\* C30: end_time is set only at finalization: in every state observed by an
\* event or a save, end_time is null while status is in_progress or paused
\* and non-null once status is completed or failed; once set it is changed
\* only by the failure path.
C30_EndTimeSetAtFinalization ==
    /\ [](pc # "constructed" => EndTimeMatchesStatus(state))
    /\ [](store.present => EndTimeMatchesStatus(store.record))
    /\ [][C30_Step]_vars

\* C30 witness: a completed run has returned with the end time stamped when
\* delivery was entered, kept by finalization and written by the last save
C30_Witness ==
    /\ Returned
    /\ state.status = "completed"
    /\ state.end_time = "at_delivery"
    /\ store.record.end_time = "at_delivery"
    /\ Last(state.events).step = "workflow"

(***************************************************************************)
(* C31: the approval gate with auto-approve.                               *)
(***************************************************************************)
IsAutoApprovedEvent(e) == e.status = "auto_approved"

AutoApprovedEvents == SelectSeq(state.events, IsAutoApprovedEvent)

\* the index in events of the 'auto_approved' event (0: none)
AutoApprovedAt ==
    IF AutoApprovedEvents = <<>> THEN 0
    ELSE CHOOSE i \in 1..Len(state.events) : IsAutoApprovedEvent(state.events[i])

\* C31: with auto-approve active and a planner result that requests
\* approval, the run never has status paused: approval_granted becomes
\* granted, pause_reason is null from the auto-approval on, exactly one
\* 'auto_approved' event is emitted and it precedes the first 'in_progress'
\* event of execution, execution is the next step entered, and retry_count
\* is not incremented by that entry.
C31_AutoApproval ==
    (auto_approve /\ state.requires_approval) =>
        /\ state.status # "paused"
        /\ Len(AutoApprovedEvents) <= 1
        /\ AutoApprovedEvents # <<>> =>
              /\ state.approval_granted = "True"
              /\ state.pause_reason = NoMessage
              /\ AutoApprovedEvents[1].step = "approval"
              /\ SubSeq(state.route_history, 1, 2) = <<"intake", "planner">>
        /\ Len(state.route_history) >= 3 =>
              /\ AutoApprovedEvents # <<>>
              /\ state.route_history[3] = "execution"
              /\ AutoApprovedAt < FirstExecutionEvent
              /\ state.events[AutoApprovedAt + 1].step = "execution"
              /\ state.events[AutoApprovedAt + 1].status = "in_progress"
        /\ ExecutionEntries = 0 => state.retry_count = 0 /\ retry_log = <<>>
        /\ (ExecutionEntries = 1 /\ pc = "running") => state.retry_count = 0

\* C31 witness: an auto-approved run has completed
C31_Witness ==
    /\ Returned
    /\ auto_approve
    /\ state.requires_approval
    /\ Len(AutoApprovedEvents) = 1
    /\ state.status = "completed"
    /\ state.approval_granted = "True"
    /\ state.pause_reason = NoMessage
    /\ state.route_history[3] = "execution"

(***************************************************************************)
(* C32: the SLA warning is recorded once.                                  *)
(***************************************************************************)
IsSlaEvent(e) == e.status = "sla_warning"

SlaEvents == SelectSeq(state.events, IsSlaEvent)

\* the index in events of the first 'sla_warning' event (0: none)
SlaEventAt ==
    IF SlaEvents = <<>> THEN 0
    ELSE CHOOSE i \in 1..Len(state.events) :
            /\ IsSlaEvent(state.events[i])
            /\ \A j \in 1..(i - 1) : ~IsSlaEvent(state.events[j])

\* the 'completed' events of steps that follow the event at index i
CompletedAfter(i) ==
    Cardinality({j \in (i + 1)..Len(state.events) : IsStepCompletedEvent(state.events[j])})

\* C32: the SLA warning is recorded at most once per run: however many steps
\* and retries run after the deadline is first breached, warnings contains
\* 'SLA threshold exceeded' at most once and events contains at most one
\* event with status 'sla_warning', emitted right after the first step whose
\* completion finds the deadline breached.
C32_SlaWarningOnce ==
    /\ Count(state.warnings, SlaWarning) <= 1
    /\ Len(SlaEvents) <= 1
    /\ breached <=> Len(SlaEvents) = 1
    /\ breached <=> Count(state.warnings, SlaWarning) = 1
    /\ SlaEvents # <<>> =>
          /\ SlaEvents[1] = Event("workflow", "sla_warning", "warning", SlaWarning)
          /\ SlaEventAt > 1
          /\ IsStepCompletedEvent(state.events[SlaEventAt - 1])
          /\ state.events[SlaEventAt - 1].step # "delivery"

\* C32 witness: the deadline was found breached after intake, and the run
\* went on through a retry to its return
C32_Witness ==
    /\ Returned
    /\ breached
    /\ state.events[SlaEventAt - 1].step = "intake"
    /\ state.retry_count >= 1
    /\ CompletedAfter(SlaEventAt) >= 6
    /\ Count(state.warnings, SlaWarning) = 1

(***************************************************************************)
(* C33: the first and the last event of a run.                             *)
(***************************************************************************)
WorkflowStarted == Event("workflow", "started", "info", <<"Workflow started.">>)

\* the final event of a completed run, the event of a pause
ClosesRun(e) ==
    \/ e.step = "workflow" /\ e.status \in TerminalLabels
    \/ e.step = "approval" /\ e.status = "paused"

\* C33: the event list of every returned run starts with the 'workflow
\* started' event and ends with the run's terminal event: for a completed
\* run a workflow event whose status equals the final run_status, for a
\* paused run the approval 'paused' event, for a failed run an event with
\* status 'failed'; no event is appended after the terminal one.
C33_FirstAndLastEvent ==
    /\ pc \notin {"constructed", "started"} => state.events[1] = WorkflowStarted
    /\ \A i \in 1..Len(state.events) :
          /\ state.events[i] = WorkflowStarted => i = 1
          /\ ClosesRun(state.events[i]) => i = Len(state.events)
    /\ Returned =>
          /\ Len(state.events) >= 2
          /\ state.status = "completed" =>
                /\ Last(state.events).step = "workflow"
                /\ Last(state.events).status = state.run_status
          /\ state.status = "paused" =>
                /\ Last(state.events).step = "approval"
                /\ Last(state.events).status = "paused"
          /\ state.status = "failed" =>
                /\ Last(state.events).status = "failed"
                /\ Last(state.events).level = "error"
                /\ Last(state.events).message = Last(state.errors)

\* C33 witness: a completed run has returned, its final event carrying the
\* label completed_with_warnings
C33_Witness ==
    /\ Returned
    /\ state.status = "completed"
    /\ state.events[1] = WorkflowStarted
    /\ Last(state.events) =
          Event("workflow", "completed_with_warnings", "info",
                <<"Workflow finished with status: ", "completed_with_warnings">>)
    /\ Len(state.events) >= 14

(***************************************************************************)
(* C34: the snapshot handed to the progress sink.                          *)
(***************************************************************************)
SnapshotFields ==
    {"request_id", "current_agent", "status", "run_status", "step_status",
     "retry_count", "warnings", "errors"}

\* what the sink reads now in the snapshot it was handed with its i-th
\* event: a field that is a copy reads as it was built, a field shared with
\* the State Record reads as the record holds it now
HeldSnapshot(i) ==
    [field \in SnapshotFields |->
        IF SnapshotCopies(field) THEN delivered[i][2][field] ELSE state[field]]

C34_Step ==
    /\ Len(delivered') \in {Len(delivered), Len(delivered) + 1}
    /\ \A i \in 1..Len(delivered) : HeldSnapshot(i)' = HeldSnapshot(i)
    /\ Len(delivered') = Len(delivered) + 1 =>
          /\ Len(state'.events) = Len(state.events) + 1
          /\ Last(delivered')[2] = Snapshot(state')
          /\ Snapshot(state') =
                [field \in SnapshotFields |-> state'[field]]

\* C34: each snapshot handed to the progress sink equals the projection of
\* the State Record (current step, status, run_status, step_status,
\* retry_count, warnings, errors) at the moment its event was appended, and
\* it is a copy: later changes of the State Record's step_status, warnings
\* or errors do not change a snapshot delivered earlier, and a change the
\* sink makes to a snapshot does not change the State Record.
C34_SnapshotIsProjectionAndCopy == [][C34_Step]_vars

\* C34 witness: a sink that writes into what it is given has received the
\* snapshots of a run that went on to a retry and failed, so step_status,
\* warnings and errors all changed after the first snapshots were handed out
C34_Witness ==
    /\ Returned
    /\ progress_callback = "edits"
    /\ Len(delivered) = Len(state.events)
    /\ state.retry_count >= 1
    /\ state.errors # <<>>
    /\ delivered[1][2].warnings = <<>>
    /\ delivered[1][2].errors = <<>>
    /\ delivered[1][2].step_status = [k \in WorkerNames |-> "pending"]
    /\ Last(delivered)[2].errors = state.errors
    /\ Last(delivered)[2].warnings = state.warnings

(***************************************************************************)
(* C35: step_status.                                                       *)
(***************************************************************************)
StepsInProgress(st) ==
    {step \in DOMAIN st.step_status : st.step_status[step] = "in_progress"}

AllPending == [step \in WorkerNames |-> "pending"]

\* C35: in every reachable state at most one step has step_status
\* in_progress, and when one does it is the step named by current_agent and
\* the last entry of route_history; from the 'workflow started' event on,
\* step_status has exactly the six registered steps as keys, all pending at
\* that event.
C35_OneStepInProgress ==
    /\ Cardinality(StepsInProgress(state)) <= 1
    /\ StepsInProgress(state) # {} =>
          /\ StepsInProgress(state) = {state.current_agent}
          /\ state.route_history # <<>>
          /\ Last(state.route_history) = state.current_agent
    /\ pc = "running" => StepsInProgress(state) = {current_step}
    /\ pc # "constructed" =>
          /\ DOMAIN state.step_status = WorkerNames
          /\ Cardinality(DOMAIN state.step_status) = 6
          /\ \A step \in WorkerNames :
                state.step_status[step] \in {"pending", "in_progress", "completed", "failed"}
    /\ (pc \in {"started", "loop"} /\ state.route_history = <<>>) =>
          state.step_status = AllPending
    /\ delivered # <<>> =>
          /\ delivered[1][1].status = "started"
          /\ delivered[1][2].step_status = AllPending

\* C35 witness: execution is running again after a failed QA, the only step
\* in progress, with the earlier steps completed and the later ones pending
C35_Witness ==
    /\ pc = "running"
    /\ current_step = "execution"
    /\ state.retry_count >= 1
    /\ StepsInProgress(state) = {"execution"}
    /\ state.step_status["qa"] = "completed"
    /\ state.step_status["delivery"] = "pending"
    /\ delivered # <<>>

(***************************************************************************)
(* C36: a completed run has delivered.                                     *)
(***************************************************************************)
\* C36: every run that returns with status completed went through delivery:
\* the last entry of route_history is delivery, delivery occurs in it
\* exactly once, step_status of all six steps is completed, and final_output
\* is non-empty; the loop never leaves through the router's 'end' fallback
\* without delivery having run.
C36_CompletedRunDelivered ==
    /\ (Returned /\ state.status = "completed") =>
          /\ Last(state.route_history) = "delivery"
          /\ Count(state.route_history, "delivery") = 1
          /\ state.step_status = [step \in WorkerNames |-> "completed"]
          /\ state.final_output.present
          /\ to_response(state).kind = "envelope"
          /\ outcomes # <<>> /\ Last(outcomes) = <<"delivery", "ok">>
    /\ current_step = "end" => Last(state.route_history) = "delivery"
    /\ pc = "loop" => current_step # "end"
    /\ pc \in {"finalized", "returned"} /\ state.status = "completed" =>
          state.step_status["delivery"] = "completed"

\* C36 witness: a run that retried has returned completed, delivery last
C36_Witness ==
    /\ Returned
    /\ state.status = "completed"
    /\ state.retry_count >= 1
    /\ Last(state.route_history) = "delivery"
    /\ state.final_output.present
    /\ state.final_output.route_history = state.route_history

(***************************************************************************)
(* C37: the approval gate is not a step.                                   *)
(***************************************************************************)
\* C37: pause_for_approval is never appended to route_history and never
\* reaches _execute_step: the loop intercepts it before the append, so a
\* paused run returns with route_history exactly [intake, planner] and an
\* auto-approved run's route_history goes from planner directly to
\* execution.
C37_GateIsNotAStep ==
    /\ \A i \in 1..Len(state.route_history) : state.route_history[i] \in WorkerNames
    /\ \A i \in 1..Len(outcomes) : outcomes[i][1] \in WorkerNames
    /\ \A i \in 1..Len(state.events) : state.events[i].step # "pause_for_approval"
    /\ pc \in {"gated", "running", "step_done"} => current_step \in WorkerNames
    /\ state.current_agent # "pause_for_approval"
    /\ DOMAIN state.step_status \subseteq WorkerNames
    /\ (Returned /\ state.status = "paused") =>
          state.route_history = <<"intake", "planner">>
    /\ (AutoApprovedEvents # <<>> /\ Len(state.route_history) >= 3) =>
          SubSeq(state.route_history, 1, 3) = <<"intake", "planner", "execution">>
    /\ current_step = "pause_for_approval" =>
          /\ pc \in {"loop", "pause_emitted", "returned", "raised", "fail_emitted"}
          /\ state.route_history = <<"intake", "planner">>

\* C37 witness: the gate has been passed by auto-approval and execution is
\* running, third in route_history
C37_Witness ==
    /\ pc = "running"
    /\ current_step = "execution"
    /\ AutoApprovedEvents # <<>>
    /\ state.route_history = <<"intake", "planner", "execution">>
    /\ previous_step = "planner"

(***************************************************************************)
(* C38: the two 'failed' events of a worker failure.                       *)
(***************************************************************************)
\* the indices in events of the events with status 'failed'
FailedEventsAt == {i \in 1..Len(state.events) : state.events[i].status = "failed"}

FailedEvent(step, message) == Event(step, "failed", "error", message)

\* C38: a worker failure produces exactly two events with status 'failed',
\* consecutive and both naming the failing step: one emitted by the step
\* wrapper while status is still the pre-failure value, and one emitted by
\* the loop's outer boundary after status has become failed; when the
\* failing step is delivery, the first of the two is emitted while status is
\* completed and end_time is already set.
C38_TwoFailedEvents ==
    /\ ~raised_at.present => FailedEventsAt = {}
    /\ raised_at.present =>
          /\ pc = "raised" =>
                /\ FailedEventsAt = {Len(state.events)}
                /\ Last(state.events) = FailedEvent(raised_at.step, raised_at.message)
                /\ state.status = raised_at.before.status
                /\ state.end_time = raised_at.before.end_time
                /\ IF raised_at.step = "delivery"
                   THEN state.status = "completed" /\ state.end_time # None
                   ELSE state.status = "in_progress" /\ state.end_time = None
          /\ pc \in {"fail_emitted", "returned"} =>
                /\ FailedEventsAt = {Len(state.events) - 1, Len(state.events)}
                /\ state.events[Len(state.events) - 1] =
                      FailedEvent(raised_at.step, raised_at.message)
                /\ Last(state.events) = FailedEvent(raised_at.step, raised_at.message)
                /\ state.status = "failed"
                /\ delivered # <<>> =>
                      /\ delivered[Len(delivered) - 1][2].status = raised_at.before.status
                      /\ delivered[Len(delivered) - 1][2].status # "failed"
                      /\ Last(delivered)[2].status = "failed"

\* C38 witness: delivery raised, and the run has returned failed; the sink
\* received the first 'failed' event with a snapshot that says completed
C38_Witness ==
    /\ Returned
    /\ raised_at.present
    /\ raised_at.step = "delivery"
    /\ raised_at.before.status = "completed"
    /\ raised_at.before.end_time = "at_delivery"
    /\ Cardinality(FailedEventsAt) = 2
    /\ delivered # <<>>
    /\ delivered[Len(delivered) - 1][2].status = "completed"
    /\ Last(delivered)[2].status = "failed"

====
